---- MODULE Spec2Model ----
(***************************************************************************)
(* Model of mcp-gopls: the LSP protocol client (internal/lsp: Client,      *)
(* serverHandler, newProcessConnection) and the text-edit application      *)
(* routines of the rename and organize-imports tools.                      *)
(*                                                                         *)
(* Every Client method takes c.mu for its whole body, so each method is    *)
(* one atomic action of Spec.  The jsonrpc2 connection is modelled by what *)
(* the client can observe of it: a Call/Notify on a closed connection      *)
(* fails (ErrClosed); on an open connection it succeeds or fails.          *)
(***************************************************************************)
EXTENDS Integers, Sequences, FiniteSets, TLC

\* ---------------------------------------------------------------- bounds
MaxURIs == 2
MaxContentLen == 3
MaxEdits == 2
MaxLine == 1
MaxChar == 2
MaxThreads == 3

URIs == 1..MaxURIs
\* the argument of an operation that takes no URI: an index outside URIs
NoURI == MaxURIs + 1
RootURIs == {"file:///ws"}
DiagBatches == {<<>>, <<"d1">>}
Threads == 1..MaxThreads
NoThread == MaxThreads + 1

\* ------------------------------------------------------- error strings
OK == ""
ErrAlreadyInitialized == "client already initialized"
ErrNotInitialized == "client not initialized"
ErrInitializeFailed == "initialize failed"
ErrInitializedNotification == "initialized notification failed"
ErrShutdownFailed == "shutdown failed"
ErrExitNotification == "exit notification failed"
ErrCloseConnection == "failed to close connection"
ErrWaitProcess == "failed to wait for process"
ErrDidOpen == "didOpen notification failed"
ErrDidClose == "didClose notification failed"
ErrRequestFailed == "request failed"
ErrUnmarshal == "failed to unmarshal result"

VARIABLES
    initialized,        \* Client.initialized
    openDocs,           \* Client.openDocs (set of keys of the map)
    rootURI,            \* Client.rootURI
    capabilities,       \* Client.capabilities
    handler,            \* Client.handler.diagnostics (handler made by NewClient)
    connHandler,        \* diagnostics of the handler the connection dispatches to
    connClosed,         \* the jsonrpc2 connection has been closed
    processWaited,      \* process.Wait has been called on the child
    hasShutDown,        \* history: a Client.Shutdown has returned nil
    last,               \* the last operation: name, argument, steps, result
    file,               \* content of the file the edit routines rewrite
    orig,               \* history: the content the edits were computed against
    edits,              \* the batch of TextEdits handed to the routine
    applyErr,           \* the error the routine returned
    epc,                \* "ready" before the routine ran, "applied" after
    disk,               \* the files of the workspace: path -> content
    wsEdit,             \* the WorkspaceEdit the server has computed for the request
    toolRes,            \* what the last tool handler did and returned
    tpc,                \* "ready" before a tool handler ran, "done" after
    rawResult,          \* the json.RawMessage a conn.Call has stored for its caller
    decoded,            \* what the method made of rawResult: operation, error, value
    mu,                 \* Client.mu: the goroutine holding it, NoThread when free
    pc,                 \* where every request goroutine stands in its method
    req,                \* the Client method every request goroutine runs
    mgr,                \* the Manager: its fields, its RWMutex, its callers
    conv,               \* a conversion helper's argument and what it returned
    sess,               \* concurrently dispatched tool requests on one client
    acc                 \* the goroutines touching the diagnostics maps

clientVars == <<initialized, openDocs, rootURI, capabilities, handler, connHandler,
                connClosed, processWaited, hasShutDown, last>>
editVars == <<file, orig, edits, applyErr, epc>>
toolVars == <<disk, wsEdit, toolRes, tpc>>
decodeVars == <<rawResult, decoded>>
lockVars == <<mu, pc, req>>
laterVars == <<mgr, conv, sess, acc>>
nonClientVars == <<editVars, toolVars, decodeVars, lockVars, laterVars>>
nonEditVars == <<clientVars, toolVars, decodeVars, lockVars, laterVars>>
vars == <<initialized, openDocs, rootURI, capabilities, handler, connHandler,
          connClosed, processWaited, hasShutDown, last,
          file, orig, edits, applyErr, epc,
          disk, wsEdit, toolRes, tpc, rawResult, decoded, mu, pc, req,
          mgr, conv, sess, acc>>

\* A Go map: nil, or a finite function from keys to values.
NilMap == [isNil |-> TRUE, m |-> <<>>]
EmptyMap == [isNil |-> FALSE, m |-> <<>>]
MapHas(d, k) == k \in DOMAIN d.m
\* d[k] of a Go map: the zero value (a nil slice) for a missing key or a nil map
MapGet(d, k) == IF MapHas(d, k) THEN d.m[k] ELSE <<>>
MapPut(d, k, v) == [isNil |-> FALSE,
                    m |-> [x \in (DOMAIN d.m) \cup {k} |-> IF x = k THEN v ELSE d.m[x]]]

\* One protocol step an operation performed on the connection or the process.
Step(method, u, ok) == [m |-> method, u |-> u, ok |-> ok]
Ret(op, arg, err, steps, res, diags) ==
    [op |-> op, arg |-> arg, err |-> err, steps |-> steps, res |-> res, diags |-> diags]

\* Outcomes of conn.Call / conn.Notify: ErrClosed once the connection is closed.
ConnOutcomes == IF connClosed THEN {FALSE} ELSE BOOLEAN

\* NewClient: the state after construction.
NewClient ==
    /\ initialized = FALSE
    /\ openDocs = {}
    /\ rootURI = ""
    /\ capabilities = "zero"
    /\ handler = EmptyMap
    /\ connHandler = NilMap
    /\ connClosed = FALSE
    /\ processWaited = FALSE
    /\ hasShutDown = FALSE
    /\ last = Ret("NewClient", NoURI, OK, <<>>, "", <<>>)

\* No edit routine has a file to work on.
EditIdle ==
    /\ file = <<>>
    /\ orig = <<>>
    /\ edits = <<>>
    /\ applyErr = OK
    /\ epc = "ready"

\* No tool request has been dispatched.
ToolIdle ==
    /\ disk = <<>>
    /\ wsEdit = [changes |-> <<>>, documentChanges |-> <<>>]
    /\ toolRes = [tool |-> "none"]
    /\ tpc = "idle"

\* No result is waiting to be decoded.
DecodeIdle ==
    /\ rawResult = "none"
    /\ decoded = [op |-> "none"]

\* The methods run one at a time, each from its Lock to its deferred Unlock.
LockIdle ==
    /\ mu = NoThread
    /\ pc = <<>>
    /\ req = <<>>

\* No manager has been constructed.
MgrIdle == mgr = [state |-> "none"]

\* No conversion helper has been called.
ConvIdle == conv = [fn |-> "none"]

\* No tool request has been dispatched concurrently with another.
SessIdle == sess = [state |-> "none"]

\* No goroutine touches a diagnostics map.
AccIdle == acc = [state |-> "none"]

LaterIdle ==
    /\ MgrIdle
    /\ ConvIdle
    /\ SessIdle
    /\ AccIdle

\* The client specification: no edit routine and no tool handler runs.
Init ==
    /\ NewClient
    /\ EditIdle
    /\ ToolIdle
    /\ DecodeIdle
    /\ LockIdle
    /\ LaterIdle

\* Client.Initialize with its `if c.initialized` check dropped.
InitializeMut(root) ==
    /\ UNCHANGED nonClientVars
    /\ UNCHANGED <<openDocs, handler, connHandler, connClosed, processWaited, hasShutDown>>
    /\ \E okCall \in ConnOutcomes, okNotify \in ConnOutcomes :
            IF ~okCall
            THEN /\ last' = Ret("Initialize", NoURI, ErrInitializeFailed,
                                <<Step("initialize", NoURI, FALSE)>>, "", <<>>)
                 /\ UNCHANGED <<initialized, rootURI, capabilities>>
            ELSE /\ capabilities' = "server"
                 /\ rootURI' = root
                 /\ initialized' = okNotify
                 /\ last' = Ret("Initialize", NoURI,
                                IF okNotify THEN OK ELSE ErrInitializedNotification,
                                <<Step("initialize", NoURI, TRUE),
                                  Step("initialized", NoURI, okNotify)>>, "", <<>>)
\* Client.Initialize
Initialize(root) ==
    /\ UNCHANGED nonClientVars
    /\ UNCHANGED <<openDocs, handler, connHandler, connClosed, processWaited, hasShutDown>>
    /\ IF initialized
       THEN /\ last' = Ret("Initialize", NoURI, ErrAlreadyInitialized, <<>>, "", <<>>)
            /\ UNCHANGED <<initialized, rootURI, capabilities>>
       ELSE \E okCall \in ConnOutcomes, okNotify \in ConnOutcomes :
            IF ~okCall
            THEN /\ last' = Ret("Initialize", NoURI, ErrInitializeFailed,
                                <<Step("initialize", NoURI, FALSE)>>, "", <<>>)
                 /\ UNCHANGED <<initialized, rootURI, capabilities>>
            ELSE /\ capabilities' = "server"
                 /\ rootURI' = root
                 /\ initialized' = okNotify
                 /\ last' = Ret("Initialize", NoURI,
                                IF okNotify THEN OK ELSE ErrInitializedNotification,
                                <<Step("initialize", NoURI, TRUE),
                                  Step("initialized", NoURI, okNotify)>>, "", <<>>)

\* All orders in which `for uri := range c.openDocs` can visit the keys.
OrdersMut(S) ==
    {s \in [1..Cardinality(S) - 1 -> S] :
        \A i, j \in 1..Cardinality(S) - 1 : i # j => s[i] # s[j]}
Orders(S) ==
    {s \in [1..Cardinality(S) -> S] : \A i, j \in 1..Cardinality(S) : i # j => s[i] # s[j]}

\* The tail of Client.Shutdown once the close, shutdown and exit steps went through:
\* process.Wait, then c.initialized = false unless Wait failed with something other
\* than an *exec.ExitError.
ShutdownWaitMut(wait) ==
    /\ processWaited' = TRUE
    /\ initialized' = initialized
    /\ hasShutDown' = (hasShutDown \/ wait # "error")
ShutdownWait(wait) ==
    /\ processWaited' = TRUE
    /\ initialized' = (wait = "error")
    /\ hasShutDown' = (hasShutDown \/ wait # "error")

\* Client.Shutdown
Shutdown ==
    /\ UNCHANGED nonClientVars
    /\ UNCHANGED <<rootURI, capabilities, handler, connHandler>>
    /\ IF ~initialized
       THEN /\ last' = Ret("Shutdown", NoURI, ErrNotInitialized, <<>>, "", <<>>)
            /\ UNCHANGED <<initialized, openDocs, connClosed, processWaited, hasShutDown>>
       ELSE \E order \in Orders(openDocs), oks \in [openDocs -> ConnOutcomes],
               okCall \in ConnOutcomes, okExit \in ConnOutcomes,
               okClose \in BOOLEAN, wait \in {"nil", "ExitError", "error"} :
            LET closes == [i \in 1..Len(order) |->
                              Step("textDocument/didClose", order[i], oks[order[i]])]
                sShutdown == Step("shutdown", NoURI, okCall)
                sExit == Step("exit", NoURI, okExit)
                sClose == Step("conn.Close", NoURI, okClose)
                sWait == Step("process.Wait", NoURI, wait # "error")
            IN  \* closeDocument deletes the key only when its didClose went through
                /\ openDocs' = {u \in openDocs : ~oks[u]}
                /\ IF ~okCall
                   THEN /\ last' = Ret("Shutdown", NoURI, ErrShutdownFailed,
                                       closes \o <<sShutdown>>, "", <<>>)
                        /\ UNCHANGED <<initialized, connClosed, processWaited, hasShutDown>>
                   ELSE IF ~okExit
                   THEN /\ last' = Ret("Shutdown", NoURI, ErrExitNotification,
                                       closes \o <<sShutdown, sExit>>, "", <<>>)
                        /\ UNCHANGED <<initialized, connClosed, processWaited, hasShutDown>>
                   ELSE IF ~okClose
                   THEN /\ connClosed' = TRUE
                        /\ last' = Ret("Shutdown", NoURI, ErrCloseConnection,
                                       closes \o <<sShutdown, sExit, sClose>>, "", <<>>)
                        /\ UNCHANGED <<initialized, processWaited, hasShutDown>>
                   ELSE /\ connClosed' = TRUE
                        /\ ShutdownWait(wait)
                        /\ last' = Ret("Shutdown", NoURI,
                                       IF wait = "error" THEN ErrWaitProcess ELSE OK,
                                       closes \o <<sShutdown, sExit, sClose, sWait>>, "", <<>>)

\* The `if c.openDocs[uri]` test of Client.OpenDocument.
AlreadyOpenMut(u) == FALSE
AlreadyOpen(u) == u \in openDocs

\* Client.OpenDocument
OpenDocumentMut(u) ==
    /\ UNCHANGED nonClientVars
    /\ UNCHANGED <<initialized, rootURI, capabilities, handler, connHandler,
                   connClosed, processWaited, hasShutDown>>
    /\ IF ~initialized
       THEN /\ last' = Ret("OpenDocument", u, ErrNotInitialized, <<>>, "", <<>>)
            /\ UNCHANGED openDocs
       ELSE IF AlreadyOpen(u)
       THEN /\ last' = Ret("OpenDocument", u, OK, <<>>, "", <<>>)
            /\ UNCHANGED openDocs
       ELSE \E ok \in ConnOutcomes :
            /\ last' = Ret("OpenDocument", u, IF ok THEN OK ELSE ErrDidOpen,
                           <<Step("textDocument/didOpen", u, ok)>>, "", <<>>)
            /\ openDocs' = openDocs \cup {u}
OpenDocument(u) ==
    /\ UNCHANGED nonClientVars
    /\ UNCHANGED <<initialized, rootURI, capabilities, handler, connHandler,
                   connClosed, processWaited, hasShutDown>>
    /\ IF ~initialized
       THEN /\ last' = Ret("OpenDocument", u, ErrNotInitialized, <<>>, "", <<>>)
            /\ UNCHANGED openDocs
       ELSE IF AlreadyOpen(u)
       THEN /\ last' = Ret("OpenDocument", u, OK, <<>>, "", <<>>)
            /\ UNCHANGED openDocs
       ELSE \E ok \in ConnOutcomes :
            /\ last' = Ret("OpenDocument", u, IF ok THEN OK ELSE ErrDidOpen,
                           <<Step("textDocument/didOpen", u, ok)>>, "", <<>>)
            /\ openDocs' = IF ok THEN openDocs \cup {u} ELSE openDocs

\* The `if !c.openDocs[uri]` test of Client.closeDocument.
NotOpenMut(u) == FALSE
NotOpen(u) == u \notin openDocs

\* Client.CloseDocument (through closeDocument); it has no initialized check.
CloseDocument(u) ==
    /\ UNCHANGED nonClientVars
    /\ UNCHANGED <<initialized, rootURI, capabilities, handler, connHandler,
                   connClosed, processWaited, hasShutDown>>
    /\ IF NotOpen(u)
       THEN /\ last' = Ret("CloseDocument", u, OK, <<>>, "", <<>>)
            /\ UNCHANGED openDocs
       ELSE \E ok \in ConnOutcomes :
            /\ last' = Ret("CloseDocument", u, IF ok THEN OK ELSE ErrDidClose,
                           <<Step("textDocument/didClose", u, ok)>>, "", <<>>)
            /\ openDocs' = IF ok THEN openDocs \ {u} ELSE openDocs

\* The part of a per-operation method after its initialized check: one conn.Call,
\* then the decoding of the result.  `shapes` are the result shapes the server can
\* send for the method, `bad` those the method's decoding rejects.
Exchange(op, method, u, shapes, bad) ==
    \E ok \in ConnOutcomes, shape \in shapes :
        last' = Ret(op, u,
                    IF ~ok THEN ErrRequestFailed
                    ELSE IF shape \in bad THEN ErrUnmarshal ELSE OK,
                    <<Step(method, u, ok)>>,
                    IF ok /\ shape \notin bad THEN shape ELSE "", <<>>)

\* A per-operation method: `if !c.initialized { return ..., "client not initialized" }`
\* then the exchange.  None of them changes a field of the client.
Request(op, method, u, shapes, bad) ==
    /\ UNCHANGED nonClientVars
    /\ UNCHANGED <<initialized, openDocs, rootURI, capabilities, handler, connHandler,
                   connClosed, processWaited, hasShutDown>>
    /\ IF ~initialized
       THEN last' = Ret(op, u, ErrNotInitialized, <<>>, "", <<>>)
       ELSE Exchange(op, method, u, shapes, bad)

\* Client.Definition: []Location, a single Location, or null decode; anything else fails.
Definition(u) ==
    Request("Definition", "textDocument/definition", u,
            {"array", "single", "null", "other"}, {"other"})

\* Client.References: the result is decoded by conn.Call itself.
References(u) ==
    Request("References", "textDocument/references", u, {"array"}, {})

\* Client.Hover with its initialized check dropped.
HoverMut(u) ==
    /\ UNCHANGED nonClientVars
    /\ UNCHANGED <<initialized, openDocs, rootURI, capabilities, handler, connHandler,
                   connClosed, processWaited, hasShutDown>>
    /\ Exchange("Hover", "textDocument/hover", u, {"hover"}, {})
\* Client.Hover
Hover(u) ==
    Request("Hover", "textDocument/hover", u, {"hover"}, {})

\* Client.PrepareRename
PrepareRename(u) ==
    Request("PrepareRename", "textDocument/prepareRename", u, {"range", "null"}, {})

\* Client.Rename: null or an empty result is an empty WorkspaceEdit.
Rename(u) ==
    Request("Rename", "textDocument/rename", u, {"edit", "null", "other"}, {"other"})

\* Client.Implementation
Implementation(u) ==
    Request("Implementation", "textDocument/implementation", u,
            {"array", "single", "null", "other"}, {"other"})

\* Client.DocumentSymbols
DocumentSymbols(u) ==
    Request("DocumentSymbols", "textDocument/documentSymbol", u,
            {"array", "other"}, {"other"})

\* Client.DocumentFormatting
DocumentFormatting(u) ==
    Request("DocumentFormatting", "textDocument/formatting", u, {"array"}, {})

\* Client.CodeActionForRange
CodeActionForRange(u) ==
    Request("CodeActionForRange", "textDocument/codeAction", u, {"array"}, {})

\* Client.WorkspaceSymbol: takes a query, no URI.
WorkspaceSymbol ==
    Request("WorkspaceSymbol", "workspace/symbol", NoURI, {"array"}, {})

\* Client.Format
Format(u) ==
    Request("Format", "textDocument/formatting", u, {"array"}, {})

\* Client.OrganizeImports
OrganizeImports(u) ==
    Request("OrganizeImports", "textDocument/codeAction", u, {"array"}, {})

PerOperationMethods ==
    {"Definition", "References", "Hover", "PrepareRename", "Rename", "Implementation",
     "DocumentSymbols", "WorkspaceSymbol", "DocumentFormatting", "CodeActionForRange"}

\* Client.GetDiagnostics with the initialized check of its sibling methods.
GetDiagnosticsMut(u) ==
    /\ UNCHANGED nonClientVars
    /\ UNCHANGED <<initialized, openDocs, rootURI, capabilities, handler, connHandler,
                   connClosed, processWaited, hasShutDown>>
    /\ IF ~initialized
       THEN last' = Ret("GetDiagnostics", u, ErrNotInitialized, <<>>, "", <<>>)
       ELSE last' = Ret("GetDiagnostics", u, OK, <<>>, "",
                        IF handler.isNil THEN <<>> ELSE MapGet(handler, u))
\* Client.GetDiagnostics: reads c.handler.diagnostics, the map of the handler that
\* NewClient made.
GetDiagnostics(u) ==
    /\ UNCHANGED nonClientVars
    /\ UNCHANGED <<initialized, openDocs, rootURI, capabilities, handler, connHandler,
                   connClosed, processWaited, hasShutDown>>
    /\ last' = Ret("GetDiagnostics", u, OK, <<>>, "",
                   IF handler.isNil THEN <<>> ELSE MapGet(handler, u))

\* The notifications the server can send, and their payloads: absent, not decodable
\* as PublishDiagnosticsParams, or a (URI, Diagnostic[]) pair.
Methods ==
    {"textDocument/publishDiagnostics", "window/logMessage", "$/progress",
     "window/showMessage", "unknown/method"}
Params ==
    {[kind |-> k, uri |-> NoURI, diagnostics |-> <<>>] : k \in {"nil", "undecodable"}}
    \cup {[kind |-> "valid", uri |-> u, diagnostics |-> b] : u \in URIs, b \in DiagBatches}

\* serverHandler.Handle on the handler that newProcessConnection gave to
\* jsonrpc2.NewConn: `handler := &serverHandler{}`, an object of its own, which is
\* not the handler NewClient stores in Client.handler.
HandleMut(method, params) ==
    /\ UNCHANGED nonClientVars
    /\ UNCHANGED <<initialized, openDocs, rootURI, capabilities, handler,
                   connClosed, processWaited, hasShutDown>>
    /\ last' = Ret("Handle", params.uri, OK, <<>>, "", <<>>)
    /\ IF method = "textDocument/publishDiagnostics" /\ params.kind # "nil"
       THEN connHandler' = MapPut(connHandler, params.uri, params.diagnostics)
       ELSE UNCHANGED connHandler
Handle(method, params) ==
    /\ UNCHANGED nonClientVars
    /\ UNCHANGED <<initialized, openDocs, rootURI, capabilities, handler,
                   connClosed, processWaited, hasShutDown>>
    /\ last' = Ret("Handle", params.uri, OK, <<>>, "", <<>>)
    /\ IF method = "textDocument/publishDiagnostics" /\ params.kind = "valid"
       THEN connHandler' = MapPut(connHandler, params.uri, params.diagnostics)
       ELSE UNCHANGED connHandler

Next ==
    \/ \E root \in RootURIs : Initialize(root)
    \/ Shutdown
    \/ \E u \in URIs : OpenDocument(u)
    \/ \E u \in URIs : CloseDocument(u)
    \/ \E u \in URIs : Definition(u)
    \/ \E u \in URIs : References(u)
    \/ \E u \in URIs : Hover(u)
    \/ \E u \in URIs : PrepareRename(u)
    \/ \E u \in URIs : Rename(u)
    \/ \E u \in URIs : Implementation(u)
    \/ \E u \in URIs : DocumentSymbols(u)
    \/ \E u \in URIs : DocumentFormatting(u)
    \/ \E u \in URIs : CodeActionForRange(u)
    \/ WorkspaceSymbol
    \/ \E u \in URIs : Format(u)
    \/ \E u \in URIs : OrganizeImports(u)
    \/ \E u \in URIs : GetDiagnostics(u)
    \/ \E method \in Methods, params \in Params : Handle(method, params)

Spec == Init /\ [][Next]_vars

\* Requests keep arriving (the system does not stop), and a caller that wants the
\* client shut down keeps calling Shutdown.
FairSpec == Init /\ [][Next]_vars /\ WF_vars(Next) /\ WF_vars(Shutdown)


\* ------------------------------------------------- edit application engine
\* A file content is a sequence of one-character strings; NL is the newline.
NL == "\n"
Alphabet == <<"a", "b", "c", "d", "e", "f">>
Letter(i) == Alphabet[((i - 1) % Len(Alphabet)) + 1]

\* The contents tried: every length up to MaxContentLen, every placement of
\* newlines, the other characters pairwise distinct.
Contents ==
    UNION {{[i \in 1..n |-> IF i \in S THEN NL ELSE Letter(i)] : S \in SUBSET (1..n)} :
           n \in 0..MaxContentLen}

\* The replacement texts tried: a deletion and an insertion.
Texts == {<<>>, <<"X">>}

\* lsp.TextEdit: Range.Start (sl, sc), Range.End (el, ec), NewText; zero-based.
TextEdits ==
    [sl : 0..MaxLine, sc : 0..MaxChar, el : 0..MaxLine, ec : 0..MaxChar, text : Texts]
EditBatches == UNION {[1..n -> TextEdits] : n \in 0..MaxEdits}

ErrReadFile == "failed to read file"
ErrWriteFile == "failed to write file"
ErrInvalidLine == "invalid line number"
ErrInvalidChar == "invalid character position"
ErrInvalidCharMulti == "invalid character position in multi-line edit"
Panic == "panic: index out of range"

\* strings.Split(content, "\n")
RECURSIVE SplitLines(_)
SplitLines(s) ==
    IF \A i \in 1..Len(s) : s[i] # NL
    THEN <<s>>
    ELSE LET k == CHOOSE i \in 1..Len(s) : s[i] = NL /\ \A j \in 1..(i - 1) : s[j] # NL
         IN  <<SubSeq(s, 1, k - 1)>> \o SplitLines(SubSeq(s, k + 1, Len(s)))

\* strings.Join(lines, "\n")
RECURSIVE JoinLines(_)
JoinLines(ls) ==
    IF Len(ls) = 0 THEN <<>>
    ELSE IF Len(ls) = 1 THEN ls[1]
    ELSE ls[1] \o <<NL>> \o JoinLines(Tail(ls))

\* The comparator given to sort.Slice: descending (start line, start character).
Less(a, b) ==
    IF a.sl # b.sl THEN a.sl > b.sl ELSE a.sc > b.sc

Swap(s, i, j) == [s EXCEPT ![i] = s[j], ![j] = s[i]]

\* sort.Slice on a slice of at most 12 elements is Go's insertion sort:
\*   for i := 1; i < n; i++ { for j := i; j > 0 && less(j, j-1); j-- { swap(j, j-1) } }
\* which leaves elements with equal keys in their input order.
RECURSIVE Sink(_, _)
Sink(s, j) ==
    IF j > 1 /\ Less(s[j], s[j - 1]) THEN Sink(Swap(s, j, j - 1), j - 1) ELSE s
RECURSIVE InsertionSort(_, _)
InsertionSort(s, i) ==
    IF i > Len(s) THEN s ELSE InsertionSort(Sink(s, i), i + 1)
SortSlice(es) == InsertionSort(es, 2)

\* line[:k] and line[k:] of Go, for 0 <= k <= len(line)
Prefix(line, k) == SubSeq(line, 1, k)
Suffix(line, k) == SubSeq(line, k + 1, Len(line))

\* One turn of the loop `for _, edit := range sortedEdits` on the slice `lines`:
\* the error it returns (OK when none) and the slice after it.  A negative index
\* passes the two bound checks and panics at the first index or slice expression.
\* In the multi-line branch append(lines[:startLine], newContent) writes
\* newContent into lines[startLine] of the shared backing array before
\* lines[endLine+1:] is read.
ApplyOne(lines, e) ==
    LET n == Len(lines)
    IN  IF e.sl >= n \/ e.el >= n
        THEN [err |-> ErrInvalidLine, lines |-> lines]
        ELSE IF e.sl < 0 \/ e.el < 0
        THEN [err |-> Panic, lines |-> lines]
        ELSE IF e.sl = e.el
        THEN LET line == lines[e.sl + 1]
             IN  IF e.sc > Len(line) \/ e.ec > Len(line)
                 THEN [err |-> ErrInvalidChar, lines |-> lines]
                 ELSE IF e.sc < 0 \/ e.ec < 0
                 THEN [err |-> Panic, lines |-> lines]
                 ELSE [err |-> OK,
                       lines |-> [lines EXCEPT ![e.sl + 1] =
                                     Prefix(line, e.sc) \o e.text \o Suffix(line, e.ec)]]
        ELSE LET startLineContent == lines[e.sl + 1]
                 endLineContent == lines[e.el + 1]
             IN  IF e.sc > Len(startLineContent) \/ e.ec > Len(endLineContent)
                 THEN [err |-> ErrInvalidCharMulti, lines |-> lines]
                 ELSE IF e.sc < 0 \/ e.ec < 0
                 THEN [err |-> Panic, lines |-> lines]
                 ELSE LET newContent == Prefix(startLineContent, e.sc) \o e.text
                                            \o Suffix(endLineContent, e.ec)
                          backing == [lines EXCEPT ![e.sl + 1] = newContent]
                      IN  [err |-> OK,
                           lines |-> SubSeq(backing, 1, e.sl + 1)
                                     \o (IF e.el + 1 < n
                                         THEN SubSeq(backing, e.el + 2, n)
                                         ELSE <<>>)]

\* The whole loop: stops at the first edit that returns an error.
RECURSIVE ApplyAll(_, _)
ApplyAll(lines, es) ==
    IF es = <<>> THEN [err |-> OK, lines |-> lines]
    ELSE LET r == ApplyOne(lines, Head(es))
         IN  IF r.err # OK THEN r ELSE ApplyAll(r.lines, Tail(es))

\* applyEditsToFile of the rename tool, on a file that was read as `content`:
\* the error returned and the content the file holds afterwards (the file is
\* written only after the whole loop went through).
applyEditsToFile(content, es, writeOK) ==
    LET r == ApplyAll(SplitLines(content), SortSlice(es))
    IN  IF r.err # OK THEN [err |-> r.err, content |-> content]
        ELSE IF ~writeOK THEN [err |-> ErrWriteFile, content |-> content]
        ELSE [err |-> OK, content |-> JoinLines(r.lines)]

\* applyTextEdits of the organize-imports tool: the same routine, line for line.
applyTextEdits(content, es, writeOK) ==
    LET r == ApplyAll(SplitLines(content), SortSlice(es))
    IN  IF r.err # OK THEN [err |-> r.err, content |-> content]
        ELSE IF ~writeOK THEN [err |-> ErrWriteFile, content |-> content]
        ELSE [err |-> OK, content |-> JoinLines(r.lines)]

\* A tool calls applyEditsToFile(filePath, edits).
RunApplyEditsToFile ==
    /\ epc = "ready"
    /\ \E readOK \in BOOLEAN, writeOK \in BOOLEAN :
          LET r == IF readOK THEN applyEditsToFile(file, edits, writeOK)
                   ELSE [err |-> ErrReadFile, content |-> file]
          IN  /\ file' = r.content
              /\ applyErr' = r.err
    /\ epc' = "applied"
    /\ UNCHANGED <<orig, edits>>
    /\ UNCHANGED nonEditVars

\* A tool calls applyTextEdits(filePath, edits).
RunApplyTextEdits ==
    /\ epc = "ready"
    /\ \E readOK \in BOOLEAN, writeOK \in BOOLEAN :
          LET r == IF readOK THEN applyTextEdits(file, edits, writeOK)
                   ELSE [err |-> ErrReadFile, content |-> file]
          IN  /\ file' = r.content
              /\ applyErr' = r.err
    /\ epc' = "applied"
    /\ UNCHANGED <<orig, edits>>
    /\ UNCHANGED nonEditVars

\* utils.CalculateOffset(text, pos): the error it returns and the byte offset of
\* the position in `text`.  A negative line passes the bound check and panics at
\* lines[pos.Line]; a negative character is added to the offset as it is.
ErrStartOffset == "failed to calculate start offset"
ErrEndOffset == "failed to calculate end offset"
RECURSIVE OffsetOfLine(_, _)
OffsetOfLine(lines, n) ==
    IF n = 0 THEN 0 ELSE OffsetOfLine(lines, n - 1) + Len(lines[n]) + 1
CalculateOffset(text, line, char) ==
    LET lines == SplitLines(text)
    IN  IF line >= Len(lines) THEN [err |-> "line exceeds document length", off |-> -1]
        ELSE IF line < 0 THEN [err |-> Panic, off |-> -1]
        ELSE IF char > Len(lines[line + 1])
        THEN [err |-> "character exceeds line length", off |-> -1]
        ELSE [err |-> OK, off |-> OffsetOfLine(lines, line) + char]

\* One turn of the loop of the format tool's applyTextEdits on the string `text`:
\* both offsets are computed on the text as the turns before left it, and the
\* slices text[:startOffset] and text[endOffset:] panic on a negative offset.
FormatOne(text, e) ==
    LET s == CalculateOffset(text, e.sl, e.sc)
        t == CalculateOffset(text, e.el, e.ec)
    IN  IF s.err = Panic THEN [err |-> Panic, text |-> text]
        ELSE IF s.err # OK THEN [err |-> ErrStartOffset, text |-> text]
        ELSE IF t.err = Panic THEN [err |-> Panic, text |-> text]
        ELSE IF t.err # OK THEN [err |-> ErrEndOffset, text |-> text]
        ELSE IF s.off < 0 \/ t.off < 0 THEN [err |-> Panic, text |-> text]
        ELSE [err |-> OK,
              text |-> SubSeq(text, 1, s.off) \o e.text
                       \o SubSeq(text, t.off + 1, Len(text))]

\* The loop `for i := len(edits) - 1; i >= 0; i--`: the edits in the reverse of
\* their input order, unsorted, stopping at the first error.
RECURSIVE FormatAll(_, _, _)
FormatAll(text, es, i) ==
    IF i = 0 THEN [err |-> OK, text |-> text]
    ELSE LET r == FormatOne(text, es[i])
         IN  IF r.err # OK THEN r ELSE FormatAll(r.text, es, i - 1)

\* applyTextEdits of the format tool, on a file that was read as `content`.
formatApplyTextEdits(content, es, writeOK) ==
    LET r == FormatAll(content, es, Len(es))
    IN  IF r.err # OK THEN [err |-> r.err, content |-> content]
        ELSE IF ~writeOK THEN [err |-> ErrWriteFile, content |-> content]
        ELSE [err |-> OK, content |-> r.text]

\* The format tool calls its applyTextEdits(filePath, textEdits).
RunFormatApplyTextEdits ==
    /\ epc = "ready"
    /\ \E readOK \in BOOLEAN, writeOK \in BOOLEAN :
          LET r == IF readOK THEN formatApplyTextEdits(file, edits, writeOK)
                   ELSE [err |-> ErrReadFile, content |-> file]
          IN  /\ file' = r.content
              /\ applyErr' = r.err
    /\ epc' = "formatted"
    /\ UNCHANGED <<orig, edits>>
    /\ UNCHANGED nonEditVars

\* A file with some content and a batch of edits the server returned for it.
EditInit ==
    /\ NewClient
    /\ ToolIdle
    /\ DecodeIdle
    /\ LockIdle
    /\ LaterIdle
    /\ file \in Contents
    /\ orig = file
    /\ edits \in EditBatches
    /\ applyErr = OK
    /\ epc = "ready"

EditNext ==
    \/ RunApplyEditsToFile
    \/ RunApplyTextEdits
    \/ RunFormatApplyTextEdits

EditSpec == EditInit /\ [][EditNext]_vars

\* ------------------------------------------------------- workspace edits
MaxDocChanges == 2
MaxChanges == 2

PathA == <<"/", "a">>
PathB == <<"/", "b">>
Paths == {PathA, PathB}
InitialDisk == [p \in Paths |-> <<"a", "b">>]
\* input.File of the request, and the key of its URI in the client's openDocs
TargetFile == PathA
TargetURI == CHOOSE u \in URIs : TRUE

\* A URI as url.Parse splits it: the scheme and the path still percent-encoded.
FileURI(path) == [scheme |-> "file", path |-> path]
EditURIs == {FileURI(PathA), FileURI(<<"/", "%", "6", "2">>),
             [scheme |-> "http", path |-> PathA]}

ErrNilPointer == "panic: nil pointer dereference"
ErrParseURI == "failed to parse URI"
ErrScheme == "expected file URI"
ErrUnescapePath == "failed to unescape path"

\* url.PathUnescape: every "%" must be followed by two hexadecimal digits, and
\* the three characters become the byte they encode.
HexDigits == {"0", "1", "2", "3", "4", "5", "6", "7", "8", "9",
              "a", "b", "c", "d", "e", "f", "A", "B", "C", "D", "E", "F"}
HexByte(h, l) ==
    IF <<h, l>> = <<"6", "1">> THEN "a"
    ELSE IF <<h, l>> = <<"6", "2">> THEN "b"
    ELSE IF <<h, l>> = <<"2", "5">> THEN "%"
    ELSE "?"
RECURSIVE Unescape(_)
Unescape(s) ==
    IF s = <<>> THEN [err |-> OK, out |-> <<>>]
    ELSE IF Head(s) = "%"
    THEN IF Len(s) < 3 \/ s[2] \notin HexDigits \/ s[3] \notin HexDigits
         THEN [err |-> "invalid URL escape", out |-> <<>>]
         ELSE LET r == Unescape(SubSeq(s, 4, Len(s)))
              IN  IF r.err # OK THEN r
                  ELSE [err |-> OK, out |-> <<HexByte(s[2], s[3])>> \o r.out]
    ELSE LET r == Unescape(Tail(s))
         IN  IF r.err # OK THEN r
             ELSE [err |-> OK, out |-> <<Head(s)>> \o r.out]

\* utils.URIToPath: url.Parse decodes the path, the scheme must be "file", and
\* the decoded path is unescaped once more.
URIToPath(uri) ==
    LET parsed == Unescape(uri.path)
    IN  IF parsed.err # OK THEN [err |-> ErrParseURI, path |-> <<>>]
        ELSE IF uri.scheme # "file" THEN [err |-> ErrScheme, path |-> <<>>]
        ELSE LET path == Unescape(parsed.out)
             IN  IF path.err # OK THEN [err |-> ErrUnescapePath, path |-> <<>>]
                 ELSE [err |-> OK, path |-> path.out]

\* Edit batches the server computes for a file of InitialDisk: an insertion at
\* the start of the file, and an edit on a line the file does not have.
InsertBatch == <<[sl |-> 0, sc |-> 0, el |-> 0, ec |-> 0, text |-> <<"X">>]>>
BeyondBatch == <<[sl |-> 1, sc |-> 0, el |-> 1, ec |-> 0, text |-> <<"X">>]>>
ToolBatches == {InsertBatch, BeyondBatch}

\* lsp.WorkspaceEdit: Changes (a map from URI to edits) and DocumentChanges.
TextDocumentEdits == [uri : EditURIs, edits : ToolBatches]
ChangesMaps ==
    UNION {[D -> ToolBatches] : D \in {E \in SUBSET EditURIs : Cardinality(E) <= MaxChanges}}
WorkspaceEdits ==
    [changes : ChangesMaps,
     documentChanges : UNION {[1..n -> TextDocumentEdits] : n \in 0..MaxDocChanges}]
EmptyWorkspaceEdit == [changes |-> <<>>, documentChanges |-> <<>>]

\* `for fileURI, edits := range edit.Changes` visiting the keys in `order`.
ChangeEntries(changes, order) ==
    [i \in 1..Len(order) |-> [uri |-> order[i], edits |-> changes[order[i]]]]

\* os.ReadFile of a path, then the routine on what was read.
OnDisk(d, path, r) ==
    IF path \in DOMAIN d THEN r ELSE [err |-> ErrReadFile, content |-> <<>>]

\* The loop of applyWorkspaceEdit with every `filePath == targetFile` test true.
RECURSIVE ApplyMatchingMut(_, _, _)
ApplyMatchingMut(d, entries, targetFile) ==
    IF entries = <<>> THEN [err |-> OK, disk |-> d, written |-> {}]
    ELSE LET p == URIToPath(Head(entries).uri)
         IN  IF p.err # OK THEN [err |-> ErrParseURI, disk |-> d, written |-> {}]
             ELSE LET r == OnDisk(d, p.path,
                                  applyTextEdits(d[p.path], Head(entries).edits, TRUE))
                  IN  IF r.err # OK THEN [err |-> r.err, disk |-> d, written |-> {}]
                      ELSE LET rest == ApplyMatchingMut([d EXCEPT ![p.path] = r.content],
                                                       Tail(entries), targetFile)
                           IN  [rest EXCEPT !.written = @ \cup {p.path}]

\* The loop of applyWorkspaceEdit over the entries of one encoding: the error
\* returned, the disk afterwards and the paths written.  It returns at the first
\* URI that does not convert and at the first failing applyTextEdits; what was
\* written before stays written.
RECURSIVE ApplyMatching(_, _, _)
ApplyMatching(d, entries, targetFile) ==
    IF entries = <<>> THEN [err |-> OK, disk |-> d, written |-> {}]
    ELSE LET p == URIToPath(Head(entries).uri)
         IN  IF p.err # OK THEN [err |-> ErrParseURI, disk |-> d, written |-> {}]
             ELSE IF p.path = targetFile
             THEN LET r == OnDisk(d, p.path,
                                  applyTextEdits(d[p.path], Head(entries).edits, TRUE))
                  IN  IF r.err # OK THEN [err |-> r.err, disk |-> d, written |-> {}]
                      ELSE LET rest == ApplyMatching([d EXCEPT ![p.path] = r.content],
                                                    Tail(entries), targetFile)
                           IN  [rest EXCEPT !.written = @ \cup {p.path}]
             ELSE ApplyMatching(d, Tail(entries), targetFile)

\* applyWorkspaceEdit(targetFile, edit): DocumentChanges when it has entries,
\* else Changes.
applyWorkspaceEdit(targetFile, edit, d, order) ==
    IF Len(edit.documentChanges) > 0
    THEN ApplyMatching(d, edit.documentChanges, targetFile)
    ELSE ApplyMatching(d, ChangeEntries(edit.changes, order), targetFile)

\* The two loops of the rename handler: a URI that does not convert and a failing
\* applyEditsToFile are noted in `errors` and the loop goes on.
RECURSIVE ApplyEach(_, _)
ApplyEach(d, entries) ==
    IF entries = <<>> THEN [disk |-> d, modified |-> {}, errors |-> <<>>]
    ELSE LET p == URIToPath(Head(entries).uri)
         IN  IF p.err # OK
             THEN LET rest == ApplyEach(d, Tail(entries))
                  IN  [rest EXCEPT !.errors = <<"Failed to parse URI">> \o @]
             ELSE LET r == OnDisk(d, p.path,
                                  applyEditsToFile(d[p.path], Head(entries).edits, TRUE))
                  IN  IF r.err # OK
                      THEN LET rest == ApplyEach(d, Tail(entries))
                           IN  [rest EXCEPT !.errors = <<"Failed to apply edits">> \o @]
                      ELSE LET rest == ApplyEach([d EXCEPT ![p.path] = r.content],
                                                Tail(entries))
                           IN  [rest EXCEPT !.modified = @ \cup {p.path}]

\* What a tool handler did: the client methods it called, the replies it got,
\* the error or message it returned, the files it wrote.
ToolRet(tool, calls, prep, reply, edit, err, msg, modified, errors) ==
    [tool |-> tool, calls |-> calls, prep |-> prep, reply |-> reply, edit |-> edit,
     err |-> err, msg |-> msg, modified |-> modified, errors |-> errors]

\* The part of Client.Rename after conn.Call returned `reply`: a null or empty
\* result is an empty WorkspaceEdit, anything else is unmarshalled.
RenameResultMut(reply, edit) ==
    IF reply = "error" THEN [err |-> ErrRequestFailed, edit |-> "nil"]
    ELSE IF reply \in {"null", "absent", "other"} THEN [err |-> ErrUnmarshal, edit |-> "nil"]
    ELSE [err |-> OK, edit |-> edit]
RenameResult(reply, edit) ==
    IF reply = "error" THEN [err |-> ErrRequestFailed, edit |-> "nil"]
    ELSE IF reply \in {"null", "absent"} THEN [err |-> OK, edit |-> EmptyWorkspaceEdit]
    ELSE IF reply = "other" THEN [err |-> ErrUnmarshal, edit |-> "nil"]
    ELSE [err |-> OK, edit |-> edit]

\* The rename handler from the PrepareRename call to its return.  prepareResult
\* is nil when PrepareRename failed or the server answered null, and the result
\* message dereferences it when a file was modified.
RenameBody(prep, reply, order) ==
    LET r == RenameResult(reply, wsEdit)
        calls == <<"OpenDocument", "PrepareRename", "Rename", "CloseDocument">>
    IN  IF r.err # OK
        THEN [disk |-> disk,
              res |-> ToolRet("rename", calls, prep, reply, r.edit,
                              "rename failed", "", {}, <<>>)]
        ELSE IF r.edit.changes = <<>> /\ r.edit.documentChanges = <<>>
        THEN [disk |-> disk,
              res |-> ToolRet("rename", calls, prep, reply, r.edit,
                              OK, "No changes needed for rename", {}, <<>>)]
        ELSE LET a == IF Len(r.edit.documentChanges) > 0
                      THEN ApplyEach(disk, r.edit.documentChanges)
                      ELSE ApplyEach(disk, ChangeEntries(r.edit.changes, order))
             IN  [disk |-> a.disk,
                  res |-> IF a.modified # {} /\ prep # "range"
                          THEN ToolRet("rename", calls, prep, reply, r.edit,
                                       ErrNilPointer, "", a.modified, a.errors)
                          ELSE ToolRet("rename", calls, prep, reply, r.edit, OK,
                                       IF a.modified # {} THEN "Successfully renamed"
                                       ELSE "No files were modified",
                                       a.modified, a.errors)]

\* The rename tool's handler on TargetFile: OpenDocument, the deferred
\* CloseDocument, PrepareRename, Rename, the edits, the result message.
RenameTool ==
    /\ tpc = "ready"
    /\ tpc' = "done"
    /\ UNCHANGED <<initialized, rootURI, capabilities, handler, connHandler,
                   connClosed, processWaited, hasShutDown, last>>
    /\ UNCHANGED <<editVars, wsEdit, decodeVars, lockVars, laterVars>>
    /\ IF ~initialized
       THEN /\ toolRes' = ToolRet("rename", <<"OpenDocument">>, "", "", "nil",
                                  ErrNotInitialized, "", {}, <<>>)
            /\ UNCHANGED <<disk, openDocs>>
       ELSE \E openOK \in ConnOutcomes, closeOK \in ConnOutcomes :
            IF TargetURI \notin openDocs /\ ~openOK
            THEN /\ toolRes' = ToolRet("rename", <<"OpenDocument">>, "", "", "nil",
                                       ErrDidOpen, "", {}, <<>>)
                 /\ UNCHANGED <<disk, openDocs>>
            ELSE \E prep \in {"error", "null", "range"},
                    reply \in {"error", "null", "absent", "other", "edit"},
                    order \in Orders(DOMAIN wsEdit.changes) :
                 /\ disk' = RenameBody(prep, reply, order).disk
                 /\ toolRes' = RenameBody(prep, reply, order).res
                 /\ openDocs' = IF closeOK THEN openDocs \ {TargetURI}
                                ELSE openDocs \cup {TargetURI}

\* The organize-imports tool's handler on TargetFile: OpenDocument, the deferred
\* CloseDocument, CodeActionForRange, the first source.organizeImports action,
\* applyWorkspaceEdit of its edit.
OrganizeImportsTool ==
    /\ tpc = "ready"
    /\ tpc' = "done"
    /\ UNCHANGED <<initialized, rootURI, capabilities, handler, connHandler,
                   connClosed, processWaited, hasShutDown, last>>
    /\ UNCHANGED <<editVars, wsEdit, decodeVars, lockVars, laterVars>>
    /\ IF ~initialized
       THEN /\ toolRes' = ToolRet("organize_imports", <<"OpenDocument">>, "", "", "nil",
                                  ErrNotInitialized, "", {}, <<>>)
            /\ UNCHANGED <<disk, openDocs>>
       ELSE \E openOK \in ConnOutcomes, closeOK \in ConnOutcomes :
            IF TargetURI \notin openDocs /\ ~openOK
            THEN /\ toolRes' = ToolRet("organize_imports", <<"OpenDocument">>, "", "",
                                       "nil", ErrDidOpen, "", {}, <<>>)
                 /\ UNCHANGED <<disk, openDocs>>
            ELSE \E reply \in {"error", "none", "command", "neither", "edit"},
                    order \in Orders(DOMAIN wsEdit.changes) :
                 LET calls == <<"OpenDocument", "CodeActionForRange", "CloseDocument">>
                     a == applyWorkspaceEdit(TargetFile, wsEdit, disk, order)
                 IN  /\ openDocs' = IF closeOK THEN openDocs \ {TargetURI}
                                    ELSE openDocs \cup {TargetURI}
                     /\ disk' = IF reply = "edit" THEN a.disk ELSE disk
                     /\ toolRes' =
                          IF reply = "error"
                          THEN ToolRet("organize_imports", calls, "", reply, "nil",
                                       "code action request failed", "", {}, <<>>)
                          ELSE IF reply = "none"
                          THEN ToolRet("organize_imports", calls, "", reply, "nil", OK,
                                       "No import organization needed", {}, <<>>)
                          ELSE IF reply = "command"
                          THEN ToolRet("organize_imports", calls, "", reply, "nil", OK,
                                       "Import organization requires command execution",
                                       {}, <<>>)
                          ELSE IF reply = "neither"
                          THEN ToolRet("organize_imports", calls, "", reply, "nil", OK,
                                       "No changes needed for import organization",
                                       {}, <<>>)
                          ELSE ToolRet("organize_imports", calls, "", reply, wsEdit,
                                       a.err,
                                       IF a.err = OK
                                       THEN "Successfully organized imports" ELSE "",
                                       a.written, <<>>)

\* The client after a successful Initialize.
InitializedClient ==
    /\ initialized = TRUE
    /\ openDocs = {}
    /\ rootURI \in RootURIs
    /\ capabilities = "server"
    /\ handler = EmptyMap
    /\ connHandler = NilMap
    /\ connClosed = FALSE
    /\ processWaited = FALSE
    /\ hasShutDown = FALSE
    /\ last = Ret("Initialize", NoURI, OK,
                  <<Step("initialize", NoURI, TRUE), Step("initialized", NoURI, TRUE)>>,
                  "", <<>>)

\* An initialized client, the files of the workspace, and the WorkspaceEdit the
\* server will answer with.
ToolInit ==
    /\ InitializedClient
    /\ EditIdle
    /\ DecodeIdle
    /\ LockIdle
    /\ LaterIdle
    /\ disk = InitialDisk
    /\ wsEdit \in WorkspaceEdits
    /\ toolRes = [tool |-> "none"]
    /\ tpc = "ready"

ToolNext ==
    \/ RenameTool
    \/ OrganizeImportsTool

ToolSpec == ToolInit /\ [][ToolNext]_vars

\* ------------------------------------------------------ result decoding
MaxItems == 2

\* JSON values.  A Range object with both its positions is one value.
JNull == [kind |-> "null"]
JString(v) == [kind |-> "string", v |-> v]
JNumber(v) == [kind |-> "number", v |-> v]
JRange(r) == [kind |-> "range", v |-> r]
JObject(fields) == [kind |-> "object", fields |-> fields]
JArray(items) == [kind |-> "array", items |-> items]

LocationURIs == {"file:///a.go", "file:///b.go"}
Ranges == {"0:1-0:4", "2:0-3:1"}
ZeroRange == "0:0-0:0"
SymbolNames == {"f", "T"}
SymbolKindFunction == 12

\* What the server can send: Location, SymbolInformation and DocumentSymbol
\* objects (a DocumentSymbol with no children member, or with one child).
JLocations == {JObject([uri |-> JString(u), range |-> JRange(r)]) :
                  u \in LocationURIs, r \in Ranges}
JSymbolInformations ==
    {JObject([name |-> JString(n), kind |-> JNumber(SymbolKindFunction), location |-> l]) :
        n \in SymbolNames, l \in JLocations}
JLeafSymbols ==
    {JObject([name |-> JString(n), kind |-> JNumber(SymbolKindFunction),
              range |-> JRange(r), selectionRange |-> JRange(sr)]) :
        n \in SymbolNames, r \in Ranges, sr \in Ranges}
JParentSymbols ==
    {JObject([name |-> JString(n), kind |-> JNumber(SymbolKindFunction),
              range |-> JRange(r), selectionRange |-> JRange(r),
              children |-> JArray(<<c>>)]) :
        n \in SymbolNames, r \in Ranges, c \in {l \in JLeafSymbols : l.fields.range = l.fields.selectionRange}}
JDocumentSymbols == JLeafSymbols \cup JParentSymbols
JArraysOf(S) == {JArray(items) : items \in UNION {[1..n -> S] : n \in 0..MaxItems}}
RawResults ==
    {JNull, JString("x")} \cup JLocations \cup JArraysOf(JLocations)
        \cup JArraysOf(JSymbolInformations) \cup JArraysOf(JDocumentSymbols)

\* json.Unmarshal into a field of a struct: an absent member and null leave the
\* zero value, a value of another JSON type is an error, and the members of an
\* object that the struct has no field for are skipped.
Member(j, name) == IF name \in DOMAIN j.fields THEN j.fields[name] ELSE JNull
UnmarshalString(j) ==
    IF j.kind = "null" THEN [ok |-> TRUE, v |-> ""]
    ELSE IF j.kind = "string" THEN [ok |-> TRUE, v |-> j.v]
    ELSE [ok |-> FALSE, v |-> ""]
UnmarshalInt(j) ==
    IF j.kind = "null" THEN [ok |-> TRUE, v |-> 0]
    ELSE IF j.kind = "number" THEN [ok |-> TRUE, v |-> j.v]
    ELSE [ok |-> FALSE, v |-> 0]
UnmarshalRange(j) ==
    IF j.kind \in {"null", "object"} THEN [ok |-> TRUE, v |-> ZeroRange]
    ELSE IF j.kind = "range" THEN [ok |-> TRUE, v |-> j.v]
    ELSE [ok |-> FALSE, v |-> ZeroRange]

ZeroLocation == [URI |-> "", Range |-> ZeroRange]
UnmarshalLocation(j) ==
    IF j.kind = "null" THEN [ok |-> TRUE, v |-> ZeroLocation]
    ELSE IF j.kind \notin {"object", "range"} THEN [ok |-> FALSE, v |-> ZeroLocation]
    ELSE IF j.kind = "range" THEN [ok |-> TRUE, v |-> ZeroLocation]
    ELSE LET u == UnmarshalString(Member(j, "uri"))
             r == UnmarshalRange(Member(j, "range"))
         IN  [ok |-> u.ok /\ r.ok, v |-> [URI |-> u.v, Range |-> r.v]]

\* json.Unmarshal(result, &locations) with locations a []Location
UnmarshalLocations(j) ==
    IF j.kind = "null" THEN [ok |-> TRUE, v |-> <<>>]
    ELSE IF j.kind # "array" THEN [ok |-> FALSE, v |-> <<>>]
    ELSE LET rs == [i \in 1..Len(j.items) |-> UnmarshalLocation(j.items[i])]
         IN  [ok |-> \A i \in 1..Len(rs) : rs[i].ok,
              v |-> [i \in 1..Len(rs) |-> rs[i].v]]

\* The decoding of Client.Definition and Client.Implementation without the
\* second json.Unmarshal.
LocationsResultMut(j) ==
    LET locations == UnmarshalLocations(j)
    IN  IF locations.ok THEN [err |-> OK, value |-> locations.v]
        ELSE [err |-> ErrUnmarshal, value |-> <<>>]
\* The decoding of Client.Definition and Client.Implementation: []Location
\* first, and when that fails a single Location.
LocationsResult(j) ==
    LET locations == UnmarshalLocations(j)
        singleLocation == UnmarshalLocation(j)
    IN  IF locations.ok THEN [err |-> OK, value |-> locations.v]
        ELSE IF singleLocation.ok THEN [err |-> OK, value |-> <<singleLocation.v>>]
        ELSE [err |-> ErrUnmarshal, value |-> <<>>]

\* json.Unmarshal into a DocumentSymbol; Children is a nil slice (the empty
\* sequence) when the object has no children member.
RECURSIVE UnmarshalDocumentSymbol(_)
UnmarshalDocumentSymbol(j) ==
    LET zero == [Name |-> "", Detail |-> "", Kind |-> 0, Range |-> ZeroRange,
                 SelectionRange |-> ZeroRange, Children |-> <<>>]
    IN  IF j.kind = "null" THEN [ok |-> TRUE, v |-> zero]
        ELSE IF j.kind # "object" THEN [ok |-> FALSE, v |-> zero]
        ELSE LET n == UnmarshalString(Member(j, "name"))
                 d == UnmarshalString(Member(j, "detail"))
                 k == UnmarshalInt(Member(j, "kind"))
                 r == UnmarshalRange(Member(j, "range"))
                 sr == UnmarshalRange(Member(j, "selectionRange"))
                 c == Member(j, "children")
                 cs == IF c.kind = "array"
                       THEN [i \in 1..Len(c.items) |-> UnmarshalDocumentSymbol(c.items[i])]
                       ELSE <<>>
             IN  [ok |-> /\ n.ok /\ d.ok /\ k.ok /\ r.ok /\ sr.ok
                         /\ c.kind \in {"null", "array"}
                         /\ \A i \in 1..Len(cs) : cs[i].ok,
                  v |-> [Name |-> n.v, Detail |-> d.v, Kind |-> k.v, Range |-> r.v,
                         SelectionRange |-> sr.v,
                         Children |-> [i \in 1..Len(cs) |-> cs[i].v]]]

\* json.Unmarshal(rawResult, &docSymbols) with docSymbols a []DocumentSymbol
UnmarshalDocumentSymbols(j) ==
    IF j.kind = "null" THEN [ok |-> TRUE, v |-> <<>>]
    ELSE IF j.kind # "array" THEN [ok |-> FALSE, v |-> <<>>]
    ELSE LET rs == [i \in 1..Len(j.items) |-> UnmarshalDocumentSymbol(j.items[i])]
         IN  [ok |-> \A i \in 1..Len(rs) : rs[i].ok,
              v |-> [i \in 1..Len(rs) |-> rs[i].v]]

UnmarshalSymbolInformation(j) ==
    LET zero == [Name |-> "", Kind |-> 0, Location |-> ZeroLocation, ContainerName |-> ""]
    IN  IF j.kind = "null" THEN [ok |-> TRUE, v |-> zero]
        ELSE IF j.kind # "object" THEN [ok |-> FALSE, v |-> zero]
        ELSE LET n == UnmarshalString(Member(j, "name"))
                 k == UnmarshalInt(Member(j, "kind"))
                 l == UnmarshalLocation(Member(j, "location"))
                 cn == UnmarshalString(Member(j, "containerName"))
             IN  [ok |-> n.ok /\ k.ok /\ l.ok /\ cn.ok,
                  v |-> [Name |-> n.v, Kind |-> k.v, Location |-> l.v,
                         ContainerName |-> cn.v]]

\* json.Unmarshal(rawResult, &symInfos) with symInfos a []SymbolInformation
UnmarshalSymbolInformations(j) ==
    IF j.kind = "null" THEN [ok |-> TRUE, v |-> <<>>]
    ELSE IF j.kind # "array" THEN [ok |-> FALSE, v |-> <<>>]
    ELSE LET rs == [i \in 1..Len(j.items) |-> UnmarshalSymbolInformation(j.items[i])]
         IN  [ok |-> \A i \in 1..Len(rs) : rs[i].ok,
              v |-> [i \in 1..Len(rs) |-> rs[i].v]]

\* The conversion loop of Client.DocumentSymbols.
FromSymbolInformation(info) ==
    [Name |-> info.Name, Detail |-> "", Kind |-> info.Kind,
     Range |-> info.Location.Range, SelectionRange |-> info.Location.Range,
     Children |-> <<>>]

\* The decoding of Client.DocumentSymbols: []DocumentSymbol first, and only when
\* that fails []SymbolInformation, converted.
DocumentSymbolsResult(j) ==
    LET docSymbols == UnmarshalDocumentSymbols(j)
        symInfos == UnmarshalSymbolInformations(j)
    IN  IF docSymbols.ok THEN [err |-> OK, value |-> docSymbols.v]
        ELSE IF ~symInfos.ok THEN [err |-> "failed to parse document symbols", value |-> <<>>]
        ELSE [err |-> OK,
              value |-> [i \in 1..Len(symInfos.v) |-> FromSymbolInformation(symInfos.v[i])]]

\* A method whose conn.Call has returned rawResult decodes it and returns.
Decode(op, r) ==
    /\ decoded.op = "none"
    /\ decoded' = [op |-> op, err |-> r.err, value |-> r.value]
    /\ UNCHANGED <<rawResult, clientVars, editVars, toolVars, lockVars, laterVars>>
DecodeDefinition == Decode("Definition", LocationsResult(rawResult))
DecodeImplementation == Decode("Implementation", LocationsResult(rawResult))
DecodeDocumentSymbols == Decode("DocumentSymbols", DocumentSymbolsResult(rawResult))

\* The server has answered a request of an initialized client.
DecodeInit ==
    /\ InitializedClient
    /\ EditIdle
    /\ ToolIdle
    /\ LockIdle
    /\ LaterIdle
    /\ rawResult \in RawResults
    /\ decoded = [op |-> "none"]
DecodeNext ==
    \/ DecodeDefinition
    \/ DecodeImplementation
    \/ DecodeDocumentSymbols

DecodeSpec == DecodeInit /\ [][DecodeNext]_vars

\* ------------------------------------------------------ the client's lock
\* Every Client method starts with c.mu.Lock() and defers c.mu.Unlock(); Hover,
\* Definition and Shutdown hold the lock across a conn.Call, which returns when
\* the response arrives.  The tools pass context.Background(), so nothing else
\* ends the call.  GetDiagnostics makes no call.
CallingMethods == {"Hover", "Definition", "Shutdown"}
LockingMethods == CallingMethods \cup {"GetDiagnostics"}

\* A request goroutine enters a Client method and reaches c.mu.Lock().
Invoke(t, method) ==
    /\ pc[t] = "idle"
    /\ pc' = [pc EXCEPT ![t] = "lock"]
    /\ req' = [req EXCEPT ![t] = method]
    /\ UNCHANGED <<mu, clientVars, editVars, toolVars, decodeVars, laterVars>>

\* A method that skips c.mu.Lock().
LockMut(t) ==
    /\ pc[t] = "lock"
    /\ IF req[t] \in CallingMethods /\ initialized /\ ~connClosed
       THEN /\ mu' = t
            /\ pc' = [pc EXCEPT ![t] = "call"]
       ELSE /\ mu' = mu
            /\ pc' = [pc EXCEPT ![t] = "done"]
    /\ UNCHANGED <<req, clientVars, editVars, toolVars, decodeVars, laterVars>>

\* c.mu.Lock() returns.  The method runs to its return (GetDiagnostics, a client
\* that is not initialized, a closed connection) and unlocks, or to its conn.Call
\* with the lock held.
Lock(t) ==
    /\ pc[t] = "lock"
    /\ mu = NoThread
    /\ IF req[t] \in CallingMethods /\ initialized /\ ~connClosed
       THEN /\ mu' = t
            /\ pc' = [pc EXCEPT ![t] = "call"]
       ELSE /\ mu' = NoThread
            /\ pc' = [pc EXCEPT ![t] = "done"]
    /\ UNCHANGED <<req, clientVars, editVars, toolVars, decodeVars, laterVars>>

\* The response to the call of t arrives (a result or an error): the method runs
\* to its return and the deferred Unlock.  Shutdown goes on with the exit
\* notification, conn.Close and process.Wait, and returns at the first that fails.
Return(t) ==
    /\ pc[t] = "call"
    /\ mu = t
    /\ mu' = NoThread
    /\ pc' = [pc EXCEPT ![t] = "done"]
    /\ UNCHANGED <<req, openDocs, rootURI, capabilities, handler, connHandler, last>>
    /\ UNCHANGED <<editVars, toolVars, decodeVars, laterVars>>
    /\ IF req[t] # "Shutdown"
       THEN UNCHANGED <<initialized, connClosed, processWaited, hasShutDown>>
       ELSE \E okCall \in BOOLEAN, okExit \in BOOLEAN, okClose \in BOOLEAN,
               wait \in {"nil", "ExitError", "error"} :
            IF ~okCall \/ ~okExit
            THEN UNCHANGED <<initialized, connClosed, processWaited, hasShutDown>>
            ELSE IF ~okClose
            THEN /\ connClosed' = TRUE
                 /\ UNCHANGED <<initialized, processWaited, hasShutDown>>
            ELSE /\ connClosed' = TRUE
                 /\ ShutdownWait(wait)

\* Request goroutines on an initialized client, none of them in a method yet.
LockInit ==
    /\ InitializedClient
    /\ EditIdle
    /\ ToolIdle
    /\ DecodeIdle
    /\ LaterIdle
    /\ mu = NoThread
    /\ pc = [t \in Threads |-> "idle"]
    /\ req = [t \in Threads |-> "none"]

\* The server pushes diagnostics whatever the requests do.
ServerPush ==
    \E batch \in DiagBatches :
        Handle("textDocument/publishDiagnostics",
               [kind |-> "valid", uri |-> TargetURI, diagnostics |-> batch])

LockNext ==
    \/ \E t \in Threads, method \in LockingMethods : Invoke(t, method)
    \/ \E t \in Threads : Lock(t)
    \/ \E t \in Threads : Return(t)
    \/ ServerPush

LockSpec == LockInit /\ [][LockNext]_vars

\* The goroutine scheduler runs a method whose Lock can return, and the server
\* keeps pushing; nothing makes the server answer a call.
LockFairSpec ==
    LockInit /\ [][LockNext]_vars
        /\ \A t \in Threads : WF_vars(Lock(t))
        /\ WF_vars(ServerPush)

\* ----------------------------------------------- reference for the edits
\* Offset of (line, character) in the content whose lines are `lines`.
RECURSIVE LineStart(_, _)
LineStart(lines, l) ==
    IF l = 0 THEN 0 ELSE LineStart(lines, l - 1) + Len(lines[l]) + 1
StartOff(lines, e) == LineStart(lines, e.sl) + e.sc
EndOff(lines, e) == LineStart(lines, e.el) + e.ec

\* The edit addresses a range of the content: line indices below the line count,
\* characters at most the length of their line, start not after end.
InBounds(lines, e) ==
    /\ e.sl >= 0 /\ e.sl < Len(lines)
    /\ e.el >= 0 /\ e.el < Len(lines)
    /\ e.sc >= 0 /\ e.sc <= Len(lines[e.sl + 1])
    /\ e.ec >= 0 /\ e.ec <= Len(lines[e.el + 1])
    /\ StartOff(lines, e) <= EndOff(lines, e)

\* Two ranges overlap when they share a character; ranges that only touch, and
\* an empty range at the start of another range, do not.
NonOverlapping(lines, es) ==
    \A i, j \in 1..Len(es) :
        i # j => \/ EndOff(lines, es[i]) <= StartOff(lines, es[j])
                 \/ EndOff(lines, es[j]) <= StartOff(lines, es[i])

ValidBatch(content, es) ==
    /\ \A i \in 1..Len(es) : InBounds(SplitLines(content), es[i])
    /\ NonOverlapping(SplitLines(content), es)

\* The orders in which the ranges of a valid batch lie in the document (several
\* only when some edits are insertions at the same point).
DocumentOrders(lines, es) ==
    {p \in Orders(1..Len(es)) :
        \A i \in 1..(Len(es) - 1) :
            EndOff(lines, es[p[i]]) <= StartOff(lines, es[p[i + 1]])}

RECURSIVE Assemble(_, _, _, _, _)
Assemble(content, lines, es, p, from) ==
    IF p = <<>> THEN SubSeq(content, from + 1, Len(content))
    ELSE LET e == es[Head(p)]
         IN  SubSeq(content, from + 1, StartOff(lines, e)) \o e.text
             \o Assemble(content, lines, es, Tail(p), EndOff(lines, e))

\* Every range of the snapshot replaced by its text at once; insertions at the
\* same point may come in either order.
Simultaneous(content, es) ==
    {Assemble(content, SplitLines(content), es, p, 0) :
        p \in DocumentOrders(SplitLines(content), es)}

\* ------------------------------------------------------------------ claims
\* Every action writes its own name into last.op, so a step with last'.op = X that
\* changes the state is a step of operation X.

\* C1: Client.Initialize on a client that is already initialized fails with the
\* "already initialized" error, performs neither the initialize call nor the
\* initialized notification, and leaves initialized, openDocs and rootURI unchanged.
C1_InitializeTwiceRejected ==
    [][(initialized /\ last'.op = "Initialize")
        => /\ last'.err = ErrAlreadyInitialized
           /\ last'.steps = <<>>
           /\ UNCHANGED <<initialized, openDocs, rootURI>>]_vars
C1_Witness ==
    /\ last.op = "Initialize"
    /\ last.err = ErrAlreadyInitialized
    /\ initialized
    /\ openDocs # {}

\* C2: every per-operation method and OpenDocument, invoked on a client that is not
\* initialized, returns the "not initialized" error, performs no protocol call or
\* notification, and leaves the open-document set unchanged.
C2_NotInitializedRejected ==
    [][(~initialized /\ last'.op \in PerOperationMethods \cup {"OpenDocument"})
        => /\ last'.err = ErrNotInitialized
           /\ last'.steps = <<>>
           /\ UNCHANGED openDocs]_vars
C2_Witness ==
    /\ last.op \in PerOperationMethods
    /\ last.err = ErrNotInitialized
    /\ ~initialized
    /\ ~connClosed

\* C3: after a Shutdown that returned success, no later Initialize makes the client
\* initialized again, and such an Initialize is rejected without issuing the
\* initialize call on the closed transport.
C3_ShutDownTerminal ==
    [][(hasShutDown /\ last'.op = "Initialize")
        => /\ ~initialized'
           /\ last'.steps = <<>>]_vars

\* C4: after a Client.Shutdown that returned success, a further Client.Shutdown
\* fails with the "not initialized" error and performs no didClose, no shutdown
\* call, no exit notification, no transport close and no process wait.
C4_SecondShutdownRejected ==
    [][(hasShutDown /\ last'.op = "Shutdown")
        => /\ last'.err = ErrNotInitialized
           /\ last'.steps = <<>>
           /\ UNCHANGED <<initialized, openDocs, connClosed, processWaited>>]_vars
C4_Witness ==
    /\ hasShutDown
    /\ last.op = "Shutdown"
    /\ last.err = ErrNotInitialized

\* C5: whenever Client.Shutdown is invoked on an initialized client (whatever it
\* returns), the child process is eventually awaited.
ShutdownOnInitialized == last.op = "Shutdown" /\ last.err # ErrNotInitialized
C5_ShutdownReapsProcess == [](ShutdownOnInitialized => <>processWaited)

\* C6: once a publishDiagnostics push (u, D) has been delivered to the connection's
\* handler, a GetDiagnostics(u) returns the batch of the latest push for u.
C6_ReadReturnsLastPush ==
    (last.op = "GetDiagnostics" /\ MapHas(connHandler, last.arg))
        => last.diags = connHandler.m[last.arg]

\* C7: GetDiagnostics for a URI that never received a push returns an empty
\* sequence and no error, in every client state.
C7_ReadWithoutPushIsEmpty ==
    (last.op = "GetDiagnostics" /\ ~MapHas(connHandler, last.arg))
        => (last.err = OK /\ last.diags = <<>>)
C7_Witness ==
    /\ last.op = "GetDiagnostics"
    /\ ~MapHas(connHandler, last.arg)
    /\ last.diags = <<>>
    /\ hasShutDown
    /\ \E u \in URIs : MapHas(connHandler, u) /\ connHandler.m[u] # <<>>

\* C8: OpenDocument on a URI that is already in the open-document set of an
\* initialized client returns success, sends no didOpen and leaves the set (which
\* is keyed by URI, one entry per URI) unchanged.
C8_OpenTwiceIsNoOp ==
    [][(initialized /\ last'.op = "OpenDocument" /\ last'.arg \in openDocs)
        => /\ last'.err = OK
           /\ last'.steps = <<>>
           /\ UNCHANGED openDocs]_vars
C8_Witness ==
    /\ initialized
    /\ last.op = "OpenDocument"
    /\ last.arg \in openDocs
    /\ last.err = OK
    /\ last.steps = <<>>
    /\ Cardinality(openDocs) > 1

\* C9: CloseDocument on a URI that is not in the open-document set returns success,
\* sends no didClose and leaves the open-document set and every other field of the
\* client unchanged.
C9_CloseUnopenedIsNoOp ==
    [][(last'.op = "CloseDocument" /\ last'.arg \notin openDocs)
        => /\ last'.err = OK
           /\ last'.steps = <<>>
           /\ UNCHANGED <<initialized, openDocs, rootURI, capabilities, handler,
                          connHandler, connClosed, processWaited>>]_vars
C9_Witness ==
    /\ last.op = "CloseDocument"
    /\ last.arg \notin openDocs
    /\ last.err = OK
    /\ last.steps = <<>>
    /\ initialized
    /\ openDocs # {}

\* C10: for every content and every batch of pairwise non-overlapping, in-bounds
\* edits computed against it, applyEditsToFile and applyTextEdits write exactly the
\* content obtained by replacing every edit's range of the original snapshot by its
\* text simultaneously (unless the file cannot be read or written).
C10_AppliesSimultaneously ==
    (epc = "applied" /\ ValidBatch(orig, edits) /\ applyErr \notin {ErrReadFile, ErrWriteFile})
        => (applyErr = OK /\ file \in Simultaneous(orig, edits))

\* C11: the content written by the sorted reverse-order routines does not depend on
\* the order of the edits in the input list: for a batch of pairwise
\* non-overlapping in-bounds edits, every permutation of the batch makes
\* applyEditsToFile write the content that the batch itself made it write.
Permuted(es, p) == [i \in 1..Len(es) |-> es[p[i]]]
C11_OrderIndependent ==
    (epc = "applied" /\ ValidBatch(orig, edits) /\ applyErr = OK)
        => \A p \in Orders(1..Len(edits)) :
              applyEditsToFile(orig, Permuted(edits, p), TRUE).content = file

\* C12: if some edit of the batch has a start or end line index beyond the
\* document's line count, or a character offset beyond its line's length, the apply
\* call returns an error and the file holds the content it had before the call.
OutOfBounds(lines, e) ==
    \/ e.sl >= Len(lines)
    \/ e.el >= Len(lines)
    \/ (e.sl >= 0 /\ e.sl < Len(lines) /\ e.sc > Len(lines[e.sl + 1]))
    \/ (e.el >= 0 /\ e.el < Len(lines) /\ e.ec > Len(lines[e.el + 1]))
C12_OutOfBoundsAborts ==
    (/\ epc \in {"applied", "formatted"}
     /\ \E i \in 1..Len(edits) : OutOfBounds(SplitLines(orig), edits[i]))
        => (applyErr # OK /\ file = orig)

\* C13: an edit whose start lies after its end in document order (start line > end
\* line, or the same line with start character > end character), or that has a
\* negative index, is rejected by the sorted routines with an error and no write.
Reversed(e) == e.sl > e.el \/ (e.sl = e.el /\ e.sc > e.ec)
Negative(e) == e.sl < 0 \/ e.sc < 0 \/ e.el < 0 \/ e.ec < 0
C13_InvalidRangeRejected ==
    (/\ epc = "applied"
     /\ \E i \in 1..Len(edits) : Reversed(edits[i]) \/ Negative(edits[i]))
        => (applyErr \notin {OK, Panic} /\ file = orig)

\* C14: applyWorkspaceEdit(targetFile, edit) modifies at most the target file: an
\* entry whose URI resolves to a different path is never applied, and when no
\* entry matches the target (in particular when the edit is empty) no file is
\* written and the call returns no error.
DocumentChangeURIs(e) == {e.documentChanges[i].uri : i \in 1..Len(e.documentChanges)}
AllEntries(e) == DocumentChangeURIs(e) \cup DOMAIN e.changes
InUse(e) == IF Len(e.documentChanges) > 0 THEN DocumentChangeURIs(e) ELSE DOMAIN e.changes
Converts(uri) == URIToPath(uri).err = OK
Matches(uri) == Converts(uri) /\ URIToPath(uri).path = TargetFile
Organized == tpc = "done" /\ toolRes.tool = "organize_imports" /\ toolRes.reply = "edit"
OnlyTargetModified ==
    /\ \A p \in Paths \ {TargetFile} : disk[p] = InitialDisk[p]
    /\ toolRes.modified \subseteq {TargetFile}
C14_OnlyTargetModified ==
    Organized =>
        /\ OnlyTargetModified
        /\ (\A u \in AllEntries(wsEdit) : ~Matches(u))
              => (toolRes.modified = {} /\ disk = InitialDisk /\ toolRes.err = OK)

\* C14 (amended): applyWorkspaceEdit modifies at most the target file, and an entry
\* whose URI resolves to a different path is never applied.  When no entry of the
\* encoding it reads (documentChanges when it has entries, else changes) matches
\* the target, no file is written, and the call returns no error if the URI of
\* every such entry converts to a path, and the "failed to parse URI" error if one
\* does not.
C14_OnlyTargetModifiedOrURIError ==
    Organized =>
        /\ OnlyTargetModified
        /\ (\A u \in InUse(wsEdit) : ~Matches(u))
              => /\ toolRes.modified = {}
                 /\ disk = InitialDisk
                 /\ toolRes.err = IF \A u \in InUse(wsEdit) : Converts(u)
                                  THEN OK ELSE ErrParseURI
C14_Witness ==
    /\ Organized
    /\ toolRes.err = OK
    /\ toolRes.modified = {TargetFile}
    /\ disk[TargetFile] # InitialDisk[TargetFile]
    /\ \E u \in InUse(wsEdit) : Converts(u) /\ URIToPath(u).path = PathB
    /\ \E i \in 1..Len(wsEdit.documentChanges) :
          /\ ~Matches(wsEdit.documentChanges[i].uri)
          /\ wsEdit.documentChanges[i].edits = InsertBatch

\* C15: if the prepareRename call fails, the rename tool still issues the rename
\* call, and when that returns edits it applies them and returns its confirmation
\* with the modified file list; the request neither fails nor crashes.
C15_PrepareFailureIsAdvisory ==
    (tpc = "done" /\ toolRes.tool = "rename" /\ toolRes.prep = "error")
        => /\ \E i \in 1..Len(toolRes.calls) : toolRes.calls[i] = "Rename"
           /\ toolRes.reply = "edit" => toolRes.err = OK
           /\ (toolRes.reply = "edit" /\ toolRes.modified # {})
                 => toolRes.msg = "Successfully renamed"

\* C16: a rename call whose result is null or absent makes Client.Rename return an
\* empty WorkspaceEdit and no error, and the rename tool then reports that no
\* changes were needed, without writing any file.
C16_NullRenameIsNoChange ==
    (tpc = "done" /\ toolRes.tool = "rename" /\ toolRes.reply \in {"null", "absent"})
        => /\ toolRes.err = OK
           /\ toolRes.edit = EmptyWorkspaceEdit
           /\ toolRes.msg = "No changes needed for rename"
           /\ toolRes.modified = {}
           /\ disk = InitialDisk
C16_Witness ==
    /\ tpc = "done"
    /\ toolRes.tool = "rename"
    /\ toolRes.reply = "absent"
    /\ toolRes.prep = "error"
    /\ toolRes.msg = "No changes needed for rename"
    /\ toolRes.edit = EmptyWorkspaceEdit
    /\ wsEdit.changes # <<>>
    /\ disk = InitialDisk

\* C17: Definition and Implementation decode a result that is a single Location
\* object into a one-element sequence holding that Location, and a result that is
\* an array of Locations into the same Locations in the same order; neither shape
\* yields an error.
LocationOf(j) == [URI |-> j.fields.uri.v, Range |-> j.fields.range.v]
C17_LocationShapesDecode ==
    (decoded.op \in {"Definition", "Implementation"})
        => /\ rawResult \in JLocations
                 => (decoded.err = OK /\ decoded.value = <<LocationOf(rawResult)>>)
           /\ rawResult \in JArraysOf(JLocations)
                 => /\ decoded.err = OK
                    /\ decoded.value = [i \in 1..Len(rawResult.items) |->
                                           LocationOf(rawResult.items[i])]
C17_Witness ==
    /\ decoded.op = "Implementation"
    /\ rawResult \in JLocations
    /\ decoded.err = OK
    /\ Len(decoded.value) = 1
    /\ decoded.value[1].Range \in Ranges

\* C18: when the server answers documentSymbol with a flat array of
\* symbol-with-location records, DocumentSymbols returns one DocumentSymbol per
\* record, in order, with the record's name and kind, the record's location range
\* as both range and selection range, and no children; when it answers with a
\* tree, the tree is returned unchanged.
FlatAsDocumentSymbol(j) ==
    [Name |-> j.fields.name.v, Detail |-> "", Kind |-> j.fields.kind.v,
     Range |-> j.fields.location.fields.range.v,
     SelectionRange |-> j.fields.location.fields.range.v,
     Children |-> <<>>]
RECURSIVE TreeAsDocumentSymbol(_)
TreeAsDocumentSymbol(j) ==
    [Name |-> j.fields.name.v, Detail |-> "", Kind |-> j.fields.kind.v,
     Range |-> j.fields.range.v, SelectionRange |-> j.fields.selectionRange.v,
     Children |-> IF "children" \in DOMAIN j.fields
                  THEN [i \in 1..Len(j.fields.children.items) |->
                           TreeAsDocumentSymbol(j.fields.children.items[i])]
                  ELSE <<>>]
C18_SymbolShapesDecode ==
    (decoded.op = "DocumentSymbols")
        => /\ rawResult \in JArraysOf(JSymbolInformations)
                 => /\ decoded.err = OK
                    /\ decoded.value = [i \in 1..Len(rawResult.items) |->
                                           FlatAsDocumentSymbol(rawResult.items[i])]
           /\ rawResult \in JArraysOf(JDocumentSymbols)
                 => /\ decoded.err = OK
                    /\ decoded.value = [i \in 1..Len(rawResult.items) |->
                                           TreeAsDocumentSymbol(rawResult.items[i])]

\* C19: a diagnostics read does not wait for in-flight protocol traffic: while
\* another request of the same client is blocked awaiting the response to its
\* protocol call, a GetDiagnostics that has been invoked can run and complete.
C19_DiagnosticsReadNotBlocked ==
    \A t \in Threads, s \in Threads :
        (pc[t] = "lock" /\ req[t] = "GetDiagnostics" /\ pc[s] = "call")
            => ENABLED Lock(t)

\* C20: Client.Shutdown is never blocked forever by another request: a Shutdown
\* that has been invoked eventually gets past c.mu.Lock() and runs its steps, also
\* when the protocol call of some other operation never receives a response.
C20_ShutdownNotBlockedForever ==
    \A t \in Threads :
        (pc[t] = "lock" /\ req[t] = "Shutdown") ~> (pc[t] # "lock")

\* ------------------------------------------------------------ the manager
MaxCallers == 2
MaxClients == 2

Callers == 1..MaxCallers
NoCaller == MaxCallers + 1
ClientIds == 1..MaxClients
NilClient == MaxClients + 1
ManagerMethods == {"Initialize", "Shutdown", "GetClient", "IsInitialized"}

ErrCreateClient == "failed to create LSP client"
ErrInitializeClient == "failed to initialize LSP client"
ErrManagerNotInitialized == "manager not initialized"

\* What a Manager method handed back: its error, and the client or the flag.
MgrRet(err, client, value) == [err |-> err, client |-> client, value |-> value]
NoRet == MgrRet(OK, NilClient, FALSE)

\* NewManager: no client, not initialized; the callers have not called yet.
\* clients is the history of the clients lsp.NewClient has made (each started
\* its child process in newProcessConnection), each with what the manager last
\* did to it; reaped holds those whose Client.Shutdown reached process.Wait.
NewManager ==
    mgr = [state |-> "ready",
           client |-> NilClient,
           initialized |-> FALSE,
           mu |-> NoCaller,
           readers |-> {},
           clients |-> <<>>,
           reaped |-> {},
           pc |-> [t \in Callers |-> "idle"],
           op |-> [t \in Callers |-> "none"],
           local |-> [t \in Callers |-> NilClient],
           ret |-> [t \in Callers |-> NoRet],
           shutDown |-> FALSE]

\* A goroutine calls a method of the manager.
MgrCall(t, method) ==
    /\ mgr.state = "ready"
    /\ mgr.pc[t] = "idle"
    /\ mgr' = [mgr EXCEPT !.pc[t] = "lock", !.op[t] = method,
                          !.local[t] = NilClient, !.ret[t] = NoRet]
    /\ UNCHANGED <<clientVars, editVars, toolVars, decodeVars, lockVars,
                   conv, sess, acc>>

\* m.mu.Lock() of Initialize and Shutdown, m.mu.RLock() of the two readers.
MgrLockMut(t) ==
    /\ mgr.state = "ready"
    /\ mgr.pc[t] = "lock"
    /\ mgr' = [mgr EXCEPT !.pc[t] = "body"]
    /\ UNCHANGED <<clientVars, editVars, toolVars, decodeVars, lockVars,
                   conv, sess, acc>>
MgrLock(t) ==
    /\ mgr.state = "ready"
    /\ mgr.pc[t] = "lock"
    /\ mgr.mu = NoCaller
    /\ IF mgr.op[t] \in {"Initialize", "Shutdown"}
       THEN /\ mgr.readers = {}
            /\ mgr' = [mgr EXCEPT !.pc[t] = "body", !.mu = t]
       ELSE mgr' = [mgr EXCEPT !.pc[t] = "body", !.readers = @ \cup {t}]
    /\ UNCHANGED <<clientVars, editVars, toolVars, decodeVars, lockVars,
                   conv, sess, acc>>

\* The deferred Unlock / RUnlock of the method t runs.
Unlocked(m, t) ==
    [m EXCEPT !.mu = IF @ = t THEN NoCaller ELSE @, !.readers = @ \ {t}]
Returned(m, t, r) ==
    [Unlocked(m, t) EXCEPT !.pc[t] = "done", !.ret[t] = r]

\* Manager.Initialize up to the assignment of m.client: the initialized check,
\* lsp.NewClient, client.Initialize and, when that fails, client.Shutdown, which
\* on a client that is not initialized returns at its initialized check and
\* leaves the child process running.
MgrInitialize(t) ==
    /\ mgr.state = "ready"
    /\ mgr.pc[t] = "body"
    /\ mgr.op[t] = "Initialize"
    /\ IF mgr.initialized
       THEN mgr' = Returned(mgr, t, NoRet)
       ELSE \E newOK \in BOOLEAN, initOK \in BOOLEAN :
               IF ~newOK
               THEN mgr' = Returned(mgr, t, MgrRet(ErrCreateClient, NilClient, FALSE))
               ELSE /\ Len(mgr.clients) < MaxClients
                    /\ IF ~initOK
                       THEN mgr' = Returned([mgr EXCEPT !.clients = Append(@, "shutdown")],
                                            t, MgrRet(ErrInitializeClient, NilClient, FALSE))
                       ELSE mgr' = [mgr EXCEPT !.clients = Append(@, "initialized"),
                                               !.local[t] = Len(mgr.clients) + 1,
                                               !.pc[t] = "assign"]
    /\ UNCHANGED <<clientVars, editVars, toolVars, decodeVars, lockVars,
                   conv, sess, acc>>

\* The end of Manager.Initialize: m.client = client; m.initialized = true.
MgrAssign(t) ==
    /\ mgr.state = "ready"
    /\ mgr.pc[t] = "assign"
    /\ mgr' = Returned([mgr EXCEPT !.client = mgr.local[t], !.initialized = TRUE,
                                   !.shutDown = FALSE],
                       t, NoRet)
    /\ UNCHANGED <<clientVars, editVars, toolVars, decodeVars, lockVars,
                   conv, sess, acc>>

\* Manager.Shutdown: a no-op without a client; otherwise the client is shut
\* down and dropped whatever its Shutdown returned.  Client.Shutdown returns
\* before process.Wait when its shutdown call, its exit notification or its
\* conn.Close fails (ErrShutdownFailed stands for the three).
MgrShutdownMut(t) ==
    /\ mgr.state = "ready"
    /\ mgr.pc[t] = "body"
    /\ mgr.op[t] = "Shutdown"
    /\ IF ~mgr.initialized \/ mgr.client = NilClient
       THEN mgr' = Returned([mgr EXCEPT !.shutDown = TRUE], t, NoRet)
       ELSE \E err \in {OK, ErrShutdownFailed, ErrWaitProcess} :
               mgr' = Returned([mgr EXCEPT !.clients[mgr.client] = "shutdown",
                                           !.reaped = IF err = ErrShutdownFailed THEN @
                                                      ELSE @ \cup {mgr.client},
                                           !.shutDown = TRUE],
                               t, MgrRet(err, NilClient, FALSE))
    /\ UNCHANGED <<clientVars, editVars, toolVars, decodeVars, lockVars,
                   conv, sess, acc>>
MgrShutdown(t) ==
    /\ mgr.state = "ready"
    /\ mgr.pc[t] = "body"
    /\ mgr.op[t] = "Shutdown"
    /\ IF ~mgr.initialized \/ mgr.client = NilClient
       THEN mgr' = Returned([mgr EXCEPT !.shutDown = TRUE], t, NoRet)
       ELSE \E err \in {OK, ErrShutdownFailed, ErrWaitProcess} :
               mgr' = Returned([mgr EXCEPT !.clients[mgr.client] = "shutdown",
                                           !.reaped = IF err = ErrShutdownFailed THEN @
                                                      ELSE @ \cup {mgr.client},
                                           !.client = NilClient,
                                           !.initialized = FALSE,
                                           !.shutDown = TRUE],
                               t, MgrRet(err, NilClient, FALSE))
    /\ UNCHANGED <<clientVars, editVars, toolVars, decodeVars, lockVars,
                   conv, sess, acc>>

\* Manager.GetClient.
MgrGetClient(t) ==
    /\ mgr.state = "ready"
    /\ mgr.pc[t] = "body"
    /\ mgr.op[t] = "GetClient"
    /\ mgr' = Returned(mgr, t,
                       IF ~mgr.initialized \/ mgr.client = NilClient
                       THEN MgrRet(ErrManagerNotInitialized, NilClient, FALSE)
                       ELSE MgrRet(OK, mgr.client, FALSE))
    /\ UNCHANGED <<clientVars, editVars, toolVars, decodeVars, lockVars,
                   conv, sess, acc>>

\* Manager.IsInitialized.
MgrIsInitialized(t) ==
    /\ mgr.state = "ready"
    /\ mgr.pc[t] = "body"
    /\ mgr.op[t] = "IsInitialized"
    /\ mgr' = Returned(mgr, t, MgrRet(OK, NilClient, mgr.initialized))
    /\ UNCHANGED <<clientVars, editVars, toolVars, decodeVars, lockVars,
                   conv, sess, acc>>

\* The caller has its result and may call again.
MgrDone(t) ==
    /\ mgr.state = "ready"
    /\ mgr.pc[t] = "done"
    /\ mgr' = [mgr EXCEPT !.pc[t] = "idle"]
    /\ UNCHANGED <<clientVars, editVars, toolVars, decodeVars, lockVars,
                   conv, sess, acc>>

\* A manager fresh from NewManager and the goroutines that will call it.
MgrInit ==
    /\ NewClient
    /\ EditIdle
    /\ ToolIdle
    /\ DecodeIdle
    /\ LockIdle
    /\ NewManager
    /\ ConvIdle
    /\ SessIdle
    /\ AccIdle

MgrNext ==
    \/ \E t \in Callers, method \in ManagerMethods : MgrCall(t, method)
    \/ \E t \in Callers : MgrLock(t)
    \/ \E t \in Callers : MgrInitialize(t)
    \/ \E t \in Callers : MgrAssign(t)
    \/ \E t \in Callers : MgrShutdown(t)
    \/ \E t \in Callers : MgrGetClient(t)
    \/ \E t \in Callers : MgrIsInitialized(t)
    \/ \E t \in Callers : MgrDone(t)

MgrSpec == MgrInit /\ [][MgrNext]_vars

\* The clients an Initialize has initialized and no Manager.Shutdown has shut down.
ManagedClients(m) == {c \in 1..Len(m.clients) : m.clients[c] = "initialized"}
\* The body of the manager method `method` runs to its return in this step.
MgrReturns(t, method) ==
    /\ mgr.pc[t] = "body"
    /\ mgr.op[t] = method
    /\ mgr'.pc[t] = "done"

\* C22: under every interleaving of concurrent Manager.Initialize calls at most
\* one client is created and initialized for the session, and Initialize on an
\* initialized manager returns success without creating a client (no child
\* process, no handshake).
C22_OneClientPerSession ==
    [][mgr.state = "ready"
         => /\ Cardinality(ManagedClients(mgr')) <= 1
            /\ \A t \in Callers :
                  (mgr.pc[t] = "body" /\ mgr.op[t] = "Initialize" /\ mgr.initialized
                     /\ mgr'.pc[t] # "body")
                     => /\ mgr'.pc[t] = "done"
                        /\ mgr'.ret[t].err = OK
                        /\ mgr'.clients = mgr.clients
                        /\ mgr'.client = mgr.client]_vars
\* Two callers have both returned from Initialize with success and there is
\* one client, which the manager holds.
C22_Witness ==
    /\ mgr.state = "ready"
    /\ \E t \in Callers, s \in Callers :
          /\ t # s
          /\ mgr.op[t] = "Initialize" /\ mgr.pc[t] = "done" /\ mgr.ret[t].err = OK
          /\ mgr.op[s] = "Initialize" /\ mgr.pc[s] = "done" /\ mgr.ret[s].err = OK
    /\ Len(mgr.clients) = 1
    /\ mgr.initialized
    /\ mgr.client = 1

IntBits == 4
MaxInt == 2 ^ (IntBits - 1) - 1
MinInt == 0 - 2 ^ (IntBits - 1)
\* the result of an int addition or subtraction, wrapped as Go wraps it
WrapInt(x) == ((x - MinInt) % (2 ^ IntBits)) + MinInt

\* utils.ConvertPosition: 1-indexed line/column to a 0-indexed lsp.Position.
ConvertPositionMut(line, column) ==
    [Line |-> WrapInt(line - 1), Character |-> column]
ConvertPosition(line, column) ==
    [Line |-> WrapInt(line - 1), Character |-> WrapInt(column - 1)]
\* utils.ConvertToUserPosition: a 0-indexed lsp.Position to (line, column).
ConvertToUserPosition(pos) ==
    <<WrapInt(pos.Line + 1), WrapInt(pos.Character + 1)>>

UserPositions == (1..MaxInt) \X (1..MaxInt)
ProtocolPositions == [Line : 0..MaxInt, Character : 0..MaxInt]

\* Paths: sequences of characters, "%" being the one that url.URL escapes.
MaxPathLen == 4
PathChars == {"/", "a", "%", "6", "2"}
LocalPaths == UNION {[1..n -> PathChars] : n \in 0..MaxPathLen}
\* the working directory of the process
Cwd == <<"/", "w">>

\* filepath.Clean on a path without "." and ".." elements: runs of separators
\* collapse and a trailing separator goes, except on the root.
RECURSIVE Squeeze(_)
Squeeze(s) ==
    IF Len(s) < 2 THEN s
    ELSE IF s[1] = "/" /\ s[2] = "/" THEN Squeeze(Tail(s))
    ELSE <<s[1]>> \o Squeeze(Tail(s))
Clean(s) ==
    LET q == Squeeze(s)
    IN  IF Len(q) > 1 /\ q[Len(q)] = "/" THEN SubSeq(q, 1, Len(q) - 1) ELSE q
\* filepath.Abs: a relative path is joined to the working directory.
Abs(path) ==
    IF path # <<>> /\ path[1] = "/" THEN Clean(path)
    ELSE IF path = <<>> THEN Clean(Cwd)
    ELSE Clean(Cwd \o <<"/">> \o path)

\* url.URL.EscapedPath: "%" is written "%25"; letters, digits and "/" stay.
RECURSIVE Escape(_)
Escape(s) ==
    IF s = <<>> THEN <<>>
    ELSE (IF Head(s) = "%" THEN <<"%", "2", "5">> ELSE <<Head(s)>>) \o Escape(Tail(s))

\* utils.PathToURI: the absolute path as the path of a file URL, escaped by
\* url.URL.String.
PathToURI(path) == FileURI(Escape(Abs(path)))

\* A helper was called with arg and returned out; chained when arg is what the
\* preceding call, made with from, returned.
Called(fn, arg, out, chained, from) ==
    [fn |-> fn, arg |-> arg, out |-> out, chained |-> chained, from |-> from]
\* the preceding call was of fn and its result has not been passed on yet
After(fn) == conv.fn = fn /\ ~conv.chained

RunConvertPosition ==
    /\ \/ /\ conv.fn = "ready"
          /\ \E p \in UserPositions :
                conv' = Called("ConvertPosition", p, ConvertPosition(p[1], p[2]),
                               FALSE, p)
       \/ /\ After("ConvertToUserPosition")
          /\ conv' = Called("ConvertPosition", conv.out,
                            ConvertPosition(conv.out[1], conv.out[2]), TRUE, conv.arg)
    /\ UNCHANGED <<clientVars, editVars, toolVars, decodeVars, lockVars, mgr, sess, acc>>

RunConvertToUserPosition ==
    /\ \/ /\ conv.fn = "ready"
          /\ \E q \in ProtocolPositions :
                conv' = Called("ConvertToUserPosition", q, ConvertToUserPosition(q),
                               FALSE, q)
       \/ /\ After("ConvertPosition")
          /\ conv' = Called("ConvertToUserPosition", conv.out,
                            ConvertToUserPosition(conv.out), TRUE, conv.arg)
    /\ UNCHANGED <<clientVars, editVars, toolVars, decodeVars, lockVars, mgr, sess, acc>>

RunPathToURI ==
    /\ conv.fn = "ready"
    /\ \E p \in LocalPaths :
          conv' = Called("PathToURI", p, PathToURI(p), FALSE, p)
    /\ UNCHANGED <<clientVars, editVars, toolVars, decodeVars, lockVars, mgr, sess, acc>>

RunURIToPath ==
    /\ After("PathToURI")
    /\ conv' = Called("URIToPath", conv.out, URIToPath(conv.out), TRUE, conv.arg)
    /\ UNCHANGED <<clientVars, editVars, toolVars, decodeVars, lockVars, mgr, sess, acc>>

ConvInit ==
    /\ NewClient
    /\ EditIdle
    /\ ToolIdle
    /\ DecodeIdle
    /\ LockIdle
    /\ MgrIdle
    /\ SessIdle
    /\ AccIdle
    /\ conv = [fn |-> "ready", chained |-> FALSE]

ConvNext ==
    \/ RunConvertPosition
    \/ RunConvertToUserPosition
    \/ RunPathToURI
    \/ RunURIToPath

ConvSpec == ConvInit /\ [][ConvNext]_vars

\* C24: position conversion is a bijection on the valid domain: converting a
\* user position (line, column >= 1) to a protocol position and back gives the
\* same position, and so does converting a protocol position with non-negative
\* fields to a user position and back.
C24_PositionRoundTrip ==
    (conv.fn \in {"ConvertPosition", "ConvertToUserPosition"} /\ conv.chained)
        => conv.out = conv.from
\* The protocol position with the largest line has made the round trip.
C24_Witness ==
    /\ conv.fn = "ConvertPosition"
    /\ conv.chained
    /\ conv.from = [Line |-> MaxInt, Character |-> 0]
    /\ conv.out = conv.from

\* C25: for every local path p, URIToPath(PathToURI(p)) is the normalized
\* absolute form of p, also when p has characters that are percent-encoded.
C25_PathRoundTrip ==
    (conv.fn = "URIToPath" /\ conv.chained)
        => conv.out = [err |-> OK, path |-> Abs(conv.from)]

\* ------------------------------------------- the document life cycle
\* The client with the operations that touch the open-document set only.
DocNext ==
    \/ \E root \in RootURIs : Initialize(root)
    \/ \E u \in URIs : OpenDocument(u)
    \/ \E u \in URIs : CloseDocument(u)
    \/ Shutdown

DocSpec == Init /\ [][DocNext]_vars

\* The steps of Client.Shutdown after the closes, in the order of the code.
ShutdownTail == <<"shutdown", "exit", "conn.Close", "process.Wait">>

\* C26: a Client.Shutdown on an initialized client attempts a didClose for
\* every URI of the open-document set before it issues the shutdown call, a
\* failing close stops neither the remaining closes nor the shutdown call, and
\* the later steps come in the order shutdown call, exit notification,
\* transport close, process wait.
C26_ShutdownOrder ==
    [][(initialized /\ last'.op = "Shutdown" /\ last' # last)
         => LET s == last'.steps
                k == Cardinality(openDocs)
            IN  /\ Len(s) > k
                /\ Len(s) <= k + Len(ShutdownTail)
                /\ \A i \in 1..k : s[i].m = "textDocument/didClose"
                /\ {s[i].u : i \in 1..k} = openDocs
                /\ \A i \in (k + 1)..Len(s) : s[i].m = ShutdownTail[i - k]
                \* a later step is made exactly when the one before it succeeded
                /\ \A i \in (k + 1)..(Len(s) - 1) : s[i].ok
                /\ (Len(s) < k + Len(ShutdownTail)) => ~s[Len(s)].ok]_vars
\* A Shutdown whose first didClose failed went on to close the second document
\* and ran every later step.
C26_Witness ==
    /\ last.op = "Shutdown"
    /\ last.err = OK
    /\ Len(last.steps) = 2 + Len(ShutdownTail)
    /\ ~last.steps[1].ok
    /\ last.steps[2].m = "textDocument/didClose"
    /\ last.steps[2].ok

\* ------------------------------------------- concurrent tool requests
\* A tool handler (hover, rename, ...) on one client: client.OpenDocument, the
\* deferred client.CloseDocument, and between them the positional call.  Each
\* of the three holds c.mu for its own duration only, so the handlers of
\* concurrently dispatched requests interleave between them.
NoRequest == [uri |-> NoURI, pc |-> "idle", issued |-> FALSE, open |-> FALSE]

\* client.OpenDocument(ctx, uri, content) of the handler t; a handler whose
\* OpenDocument failed returns before it registers the deferred close.
HandlerOpen(t, u) ==
    /\ sess.state = "ready"
    /\ sess.req[t].pc = "idle"
    /\ initialized
    /\ IF AlreadyOpen(u)
       THEN /\ last' = Ret("OpenDocument", u, OK, <<>>, "", <<>>)
            /\ UNCHANGED openDocs
            /\ sess' = [sess EXCEPT !.req[t] = [uri |-> u, pc |-> "opened",
                                                issued |-> FALSE, open |-> FALSE]]
       ELSE \E ok \in ConnOutcomes :
            /\ last' = Ret("OpenDocument", u, IF ok THEN OK ELSE ErrDidOpen,
                           <<Step("textDocument/didOpen", u, ok)>>, "", <<>>)
            /\ openDocs' = IF ok THEN openDocs \cup {u} ELSE openDocs
            /\ sess' = [sess EXCEPT !.req[t] = [uri |-> u,
                                                pc |-> IF ok THEN "opened" ELSE "done",
                                                issued |-> FALSE, open |-> FALSE]]
    /\ UNCHANGED <<initialized, rootURI, capabilities, handler, connHandler,
                   connClosed, processWaited, hasShutDown>>
    /\ UNCHANGED <<editVars, toolVars, decodeVars, lockVars, mgr, conv, acc>>

\* client.Hover(ctx, uri, position) of the handler t: the positional call is
\* issued; open records whether the URI was in c.openDocs at that moment.
HandlerCall(t) ==
    /\ sess.state = "ready"
    /\ sess.req[t].pc = "opened"
    /\ \E ok \in ConnOutcomes :
          last' = Ret("Hover", sess.req[t].uri, IF ok THEN OK ELSE ErrRequestFailed,
                      <<Step("textDocument/hover", sess.req[t].uri, ok)>>, "", <<>>)
    /\ sess' = [sess EXCEPT !.req[t].pc = "called",
                            !.req[t].issued = TRUE,
                            !.req[t].open = (sess.req[t].uri \in openDocs)]
    /\ UNCHANGED <<initialized, openDocs, rootURI, capabilities, handler, connHandler,
                   connClosed, processWaited, hasShutDown>>
    /\ UNCHANGED <<editVars, toolVars, decodeVars, lockVars, mgr, conv, acc>>

\* The deferred client.CloseDocument(ctx, uri) of the handler t.
HandlerClose(t) ==
    /\ sess.state = "ready"
    /\ sess.req[t].pc = "called"
    /\ LET u == sess.req[t].uri
       IN  IF NotOpen(u)
           THEN /\ last' = Ret("CloseDocument", u, OK, <<>>, "", <<>>)
                /\ UNCHANGED openDocs
           ELSE \E ok \in ConnOutcomes :
                /\ last' = Ret("CloseDocument", u, IF ok THEN OK ELSE ErrDidClose,
                               <<Step("textDocument/didClose", u, ok)>>, "", <<>>)
                /\ openDocs' = IF ok THEN openDocs \ {u} ELSE openDocs
    /\ sess' = [sess EXCEPT !.req[t].pc = "done"]
    /\ UNCHANGED <<initialized, rootURI, capabilities, handler, connHandler,
                   connClosed, processWaited, hasShutDown>>
    /\ UNCHANGED <<editVars, toolVars, decodeVars, lockVars, mgr, conv, acc>>

\* An initialized client and the requests the server has dispatched, none of
\* them started.
SessInit ==
    /\ InitializedClient
    /\ EditIdle
    /\ ToolIdle
    /\ DecodeIdle
    /\ LockIdle
    /\ MgrIdle
    /\ ConvIdle
    /\ AccIdle
    /\ sess = [state |-> "ready", req |-> [t \in Callers |-> NoRequest]]

SessNext ==
    \/ \E t \in Callers, u \in URIs : HandlerOpen(t, u)
    \/ \E t \in Callers : HandlerCall(t)
    \/ \E t \in Callers : HandlerClose(t)

SessSpec == SessInit /\ [][SessNext]_vars

\* C27: for every tool request on a file, the file's URI is in the client's
\* open-document set at the moment the request's positional call is issued,
\* under every interleaving of concurrently dispatched requests.
C27_OpenWhenCalled ==
    (sess.state = "ready")
        => \A t \in Callers :
              sess.req[t].issued => sess.req[t].open

\* ------------------------------------------ access to the diagnostics maps
\* The goroutines that touch a diagnostics map: the request goroutines, which
\* read through Client.GetDiagnostics, and the reader goroutine of the
\* connection, which runs serverHandler.Handle.
Reader == NoCaller
Goroutines == Callers \cup {Reader}
NoAccess == [map |-> "none", kind |-> "none"]
\* where a goroutine stands: the URI it works on, the batch it stores
AtRest == [pc |-> "idle", uri |-> NoURI, batch |-> <<>>]

\* serverHandler.Handle up to its store, for a publishDiagnostics whose params
\* decoded: it takes no lock, makes the map if it is nil, and is about to write
\* the map of the handler the connection was made with.
HandleBegin(u, batch) ==
    /\ acc.state = "ready"
    /\ acc.at[Reader].pc = "idle"
    /\ acc' = [acc EXCEPT !.at[Reader] = [pc |-> "store", uri |-> u, batch |-> batch],
                          !.access[Reader] = [map |-> "conn", kind |-> "write"]]
    /\ UNCHANGED <<clientVars, editVars, toolVars, decodeVars, lockVars, mgr, conv, sess>>

\* h.diagnostics[params.URI] = params.Diagnostics, and Handle returns.
HandleStore ==
    /\ acc.state = "ready"
    /\ acc.at[Reader].pc = "store"
    /\ connHandler' = MapPut(connHandler, acc.at[Reader].uri, acc.at[Reader].batch)
    /\ last' = Ret("Handle", acc.at[Reader].uri, OK, <<>>, "", <<>>)
    /\ acc' = [acc EXCEPT !.at[Reader] = AtRest, !.access[Reader] = NoAccess]
    /\ UNCHANGED <<initialized, openDocs, rootURI, capabilities, handler,
                   connClosed, processWaited, hasShutDown>>
    /\ UNCHANGED <<editVars, toolVars, decodeVars, lockVars, mgr, conv, sess>>

\* Client.GetDiagnostics up to its read: c.mu.Lock() returns once no other
\* goroutine holds c.mu, and the method is about to read c.handler.diagnostics.
GetDiagnosticsBegin(t, u) ==
    /\ acc.state = "ready"
    /\ acc.at[t].pc = "idle"
    /\ \A g \in Goroutines : "c.mu" \notin acc.held[g]
    /\ acc' = [acc EXCEPT !.at[t] = [pc |-> "read", uri |-> u, batch |-> <<>>],
                          !.held[t] = @ \cup {"c.mu"},
                          !.access[t] = [map |-> "client", kind |-> "read"]]
    /\ UNCHANGED <<clientVars, editVars, toolVars, decodeVars, lockVars, mgr, conv, sess>>

\* return c.handler.diagnostics[uri], and the deferred c.mu.Unlock().
GetDiagnosticsEnd(t) ==
    /\ acc.state = "ready"
    /\ acc.at[t].pc = "read"
    /\ last' = Ret("GetDiagnostics", acc.at[t].uri, OK, <<>>, "",
                   MapGet(handler, acc.at[t].uri))
    /\ acc' = [acc EXCEPT !.at[t] = AtRest,
                          !.held[t] = @ \ {"c.mu"},
                          !.access[t] = NoAccess]
    /\ UNCHANGED <<initialized, openDocs, rootURI, capabilities, handler, connHandler,
                   connClosed, processWaited, hasShutDown>>
    /\ UNCHANGED <<editVars, toolVars, decodeVars, lockVars, mgr, conv, sess>>

\* An initialized client; no goroutine is in Handle or in GetDiagnostics.
AccInit ==
    /\ InitializedClient
    /\ EditIdle
    /\ ToolIdle
    /\ DecodeIdle
    /\ LockIdle
    /\ MgrIdle
    /\ ConvIdle
    /\ SessIdle
    /\ acc = [state |-> "ready",
              at |-> [g \in Goroutines |-> AtRest],
              held |-> [g \in Goroutines |-> {}],
              access |-> [g \in Goroutines |-> NoAccess]]

AccNext ==
    \/ \E u \in URIs, batch \in DiagBatches : HandleBegin(u, batch)
    \/ HandleStore
    \/ \E t \in Callers, u \in URIs : GetDiagnosticsBegin(t, u)
    \/ \E t \in Callers : GetDiagnosticsEnd(t)

AccSpec == AccInit /\ [][AccNext]_vars

\* C28: every write to and every read of a diagnostics map is made while the
\* goroutine holds a lock, so that an ingestion by the transport's reader never
\* overlaps a read or another write of the same map.
C28_DiagnosticsUnderLock ==
    (acc.state = "ready")
        => /\ \A g \in Goroutines :
                 acc.access[g] # NoAccess => acc.held[g] # {}
           /\ \A g \in Goroutines, h \in Goroutines :
                 (g # h /\ acc.access[g].kind = "write"
                    /\ acc.access[h] # NoAccess)
                    => acc.access[g].map # acc.access[h].map

\* ------------------------------------------------- diagnostics ingestion
\* The client with the operations that touch the diagnostics maps, on a client
\* that may or may not be initialized and have documents open.
DiagNext ==
    \/ \E root \in RootURIs : Initialize(root)
    \/ \E u \in URIs : OpenDocument(u)
    \/ \E u \in URIs : GetDiagnostics(u)
    \/ \E method \in Methods, params \in Params : Handle(method, params)

DiagSpec == Init /\ [][DiagNext]_vars

\* C29: handling a notification whose method is not publishDiagnostics, or a
\* publishDiagnostics whose payload is absent or does not decode, raises no
\* error and leaves every stored batch unchanged; a valid push for URI u
\* replaces u's batch only and leaves the batches of all other URIs unchanged.
C29_HandleFrame ==
    [][\A method \in Methods, params \in Params :
          Handle(method, params)
             => /\ last'.err = OK
                /\ handler' = handler
                /\ IF method = "textDocument/publishDiagnostics" /\ params.kind = "valid"
                   THEN /\ MapHas(connHandler', params.uri)
                        /\ connHandler'.m[params.uri] = params.diagnostics
                        /\ \A v \in URIs \ {params.uri} :
                              /\ MapHas(connHandler', v) = MapHas(connHandler, v)
                              /\ MapGet(connHandler', v) = MapGet(connHandler, v)
                   ELSE connHandler' = connHandler]_vars
\* A notification has been handled and the connection's handler holds
\* different batches for two URIs.
C29_Witness ==
    /\ last.op = "Handle"
    /\ \E u \in URIs, v \in URIs :
          /\ MapHas(connHandler, u)
          /\ MapHas(connHandler, v)
          /\ connHandler.m[u] = <<"d1">>
          /\ connHandler.m[v] = <<>>

\* C30: the format tool's applyTextEdits writes the content that the specified
\* algorithm (sort by descending start, then apply) writes, for every file
\* content and every batch of pairwise non-overlapping in-bounds edits,
\* whatever the order of the edits in the list.
C30_FormatEqualsSorted ==
    (epc = "formatted" /\ ValidBatch(orig, edits)
        /\ applyErr \notin {ErrReadFile, ErrWriteFile})
        => /\ applyErr = OK
           /\ file = applyEditsToFile(orig, edits, TRUE).content

\* The same per-document edit lists as a documentChanges list, in the order p.
AsDocumentChanges(changes, p) ==
    [changes |-> <<>>, documentChanges |-> ChangeEntries(changes, p)]
\* The handler applied the WorkspaceEdit the server had computed.
EditApplied(tool) ==
    /\ tpc = "done"
    /\ toolRes.tool = tool
    /\ toolRes.reply = "edit"
    /\ wsEdit # EmptyWorkspaceEdit
\* C31, rename tool: a WorkspaceEdit populated only in changes makes the
\* handler write what the same edit lists in documentChanges make it write, and
\* with both populated only the documentChanges entries are applied.
C31_RenameEncodingsEquivalent ==
    EditApplied("rename")
        => /\ (wsEdit.documentChanges = <<>>)
                 => \A p \in Orders(DOMAIN wsEdit.changes) :
                       disk = ApplyEach(InitialDisk,
                                        AsDocumentChanges(wsEdit.changes, p).documentChanges).disk
           /\ (wsEdit.documentChanges # <<>>)
                 => disk = ApplyEach(InitialDisk, wsEdit.documentChanges).disk

\* C31: the two WorkspaceEdit encodings are accepted equivalently: for the same
\* per-document edit lists an edit populated only in changes and one populated
\* only in documentChanges lead the rename tool and applyWorkspaceEdit to write
\* the same file contents; when both are populated only the documentChanges
\* entries are applied and the changes map is ignored.
C31_EncodingsEquivalent ==
    /\ C31_RenameEncodingsEquivalent
    /\ EditApplied("organize_imports")
          => /\ (wsEdit.documentChanges = <<>>)
                   => \A p \in Orders(DOMAIN wsEdit.changes) :
                         disk = applyWorkspaceEdit(TargetFile,
                                                   AsDocumentChanges(wsEdit.changes, p),
                                                   InitialDisk, p).disk
             /\ (wsEdit.documentChanges # <<>>)
                   => disk = ApplyMatching(InitialDisk, wsEdit.documentChanges,
                                           TargetFile).disk

\* The entries the rename handler walks: documentChanges when it has entries,
\* else the changes map (in some order; only their set matters here).
RenameEntries ==
    IF Len(wsEdit.documentChanges) > 0 THEN wsEdit.documentChanges
    ELSE ChangeEntries(wsEdit.changes,
                       CHOOSE p \in Orders(DOMAIN wsEdit.changes) : TRUE)
\* The entry's URI names a file and its batch applies to that file.
Applicable(e) ==
    /\ URIToPath(e.uri).err = OK
    /\ URIToPath(e.uri).path \in Paths
    /\ applyEditsToFile(InitialDisk[URIToPath(e.uri).path], e.edits, TRUE).err = OK
ApplicableEntries == {i \in 1..Len(RenameEntries) : Applicable(RenameEntries[i])}

\* C32: after the rename tool has processed a multi-file WorkspaceEdit the
\* modified-file list it reports is exactly the set of files whose batch was
\* applied and written without error; a URI-parse or apply failure on one file
\* is reported and does not keep the edits of the other files from being
\* applied.
C32_ModifiedListExact ==
    EditApplied("rename")
        => /\ toolRes.err = OK
           /\ toolRes.modified =
                 {URIToPath(RenameEntries[i].uri).path : i \in ApplicableEntries}
           /\ \A p \in Paths : (p \in toolRes.modified) = (disk[p] # InitialDisk[p])
           /\ Len(toolRes.errors) = Len(RenameEntries) - Cardinality(ApplicableEntries)

\* The child processes that were started and that no process.Wait has reaped.
LiveProcesses == {c \in 1..Len(mgr.clients) : c \notin mgr.reaped}

\* C33: at every moment, for any sequence of Manager.Initialize and
\* Manager.Shutdown calls (an Initialize whose handshake fails followed by a
\* retry, a Shutdown whose client shutdown fails), at most one child process
\* that was started and not yet reaped exists per Manager.
C33_OneLiveProcess ==
    (mgr.state = "ready") => Cardinality(LiveProcesses) <= 1

\* The operation recorded in r performed an initialize call that went through.
SentInitialize(r) ==
    \E i \in 1..Len(r.steps) : r.steps[i].m = "initialize" /\ r.steps[i].ok

\* C34: the initialize handshake call is sent to the server at most once per
\* client: once an initialize call has gone through (the server's capabilities
\* are stored), no later Client.Initialize sends it again, also not a retry
\* after an Initialize whose initialized notification failed.
C34_HandshakeSentOnce ==
    [][(capabilities = "server" /\ last'.op = "Initialize")
         => ~SentInitialize(last')]_vars

\* The URIs for which the operation recorded in r sent `method` successfully.
SentFor(r, method) ==
    {r.steps[i].u : i \in {j \in 1..Len(r.steps) :
                              r.steps[j].m = method /\ r.steps[j].ok}}

\* C35: the open-document set is the set of URIs for which a didOpen was sent
\* successfully and no didClose has been sent successfully since.  The set is
\* empty after construction, and every step adds exactly the URIs whose didOpen
\* went through and removes exactly those whose didClose went through: a
\* failed didOpen adds nothing and a failed didClose removes nothing.
C35_OpenSetTracksNotifications ==
    [][openDocs' = (openDocs \cup SentFor(last', "textDocument/didOpen"))
                       \ SentFor(last', "textDocument/didClose")]_vars
\* A didClose for an open document has failed and the document is still in
\* the set.
C35_Witness ==
    /\ last.op = "CloseDocument"
    /\ last.err = ErrDidClose
    /\ last.arg \in openDocs
    /\ Cardinality(openDocs) = 2

\* Shutdown goes on to conn.Close exactly when its exit notification went
\* through, and nothing else closes the connection: connClosed says that the
\* exit notification has been sent.
ExitSent == connClosed
\* The operation recorded in r made no protocol call and sent no notification.
NoTraffic(r) ==
    \A i \in 1..Len(r.steps) : r.steps[i].m \in {"conn.Close", "process.Wait"}

\* C36: once the exit notification has been sent the client issues no further
\* protocol call or notification on that connection, in every outcome of
\* Shutdown: also when the transport close or the process wait returned an
\* error and other requests or a second Shutdown follow.
C36_SilentAfterExit ==
    [][ExitSent => NoTraffic(last')]_vars

\* ------------------------------------------------- calls in flight and the lock
\* OpenDocument and closeDocument send their notification with c.mu held and
\* change openDocs before the deferred Unlock; conn.Notify awaits no response.
NotifyingMethods == {"OpenDocument", "CloseDocument"}
FlightMethods == CallingMethods \cup NotifyingMethods

\* c.mu.Lock() returns in OpenDocument or CloseDocument: the method checks the
\* client and the set, sends its notification, updates the set when the
\* notification went through, and unlocks.
LockNotify(t) ==
    /\ pc[t] = "lock"
    /\ mu = NoThread
    /\ req[t] \in NotifyingMethods
    /\ \E u \in URIs, ok \in ConnOutcomes :
        openDocs' =
            IF req[t] = "OpenDocument"
            THEN IF initialized /\ u \notin openDocs /\ ok
                 THEN openDocs \cup {u} ELSE openDocs
            ELSE IF u \in openDocs /\ ok
                 THEN openDocs \ {u} ELSE openDocs
    /\ mu' = NoThread
    /\ pc' = [pc EXCEPT ![t] = "done"]
    /\ UNCHANGED <<req, initialized, rootURI, capabilities, handler, connHandler,
                   connClosed, processWaited, hasShutDown, last>>
    /\ UNCHANGED <<editVars, toolVars, decodeVars, laterVars>>

FlightNext ==
    \/ \E t \in Threads, method \in FlightMethods : Invoke(t, method)
    \/ \E t \in Threads : req[t] \in CallingMethods /\ Lock(t)
    \/ \E t \in Threads : LockNotify(t)
    \/ \E t \in Threads : Return(t)

FlightSpec == LockInit /\ [][FlightNext]_vars

\* The goroutines whose conn.Call has been sent and has not returned.
InFlight == {t \in Threads : pc[t] = "call"}

\* C37: at most one protocol call of the client is outstanding at any time and
\* the goroutine that made it holds c.mu; a step during which a call stays in
\* flight changes neither the open-document set nor the initialized flag.
C37_OneCallInFlight ==
    /\ [](Cardinality(InFlight) <= 1 /\ \A t \in InFlight : mu = t)
    /\ [][(InFlight # {} /\ InFlight' = InFlight)
            => (openDocs' = openDocs /\ initialized' = initialized)]_vars
\* A call is in flight while one goroutine waits at the lock to open a document
\* and another has already opened one.
C37_Witness ==
    /\ \E t \in Threads : pc[t] = "call"
    /\ \E t \in Threads : pc[t] = "lock" /\ req[t] = "OpenDocument"
    /\ openDocs # {}

\* ------------------------------------------ two edit applications on one file
\* Two tool requests run applyEditsToFile on the same path in two goroutines.
\* The routine takes no lock: os.ReadFile is one step, the computation on the
\* content it read and os.WriteFile the next.  file is the content on disk,
\* orig[0] the content before the requests, orig[h] what request h read,
\* edits[h] its edits and epc[h] its position.
Requests == {1, 2}
\* The edits a request carries: one replacement inside the first line.
RequestBatches == {<<e>> : e \in {x \in TextEdits : x.sl = 0 /\ x.el = 0}}

\* os.ReadFile(filePath) of request h.
ReadFile(h) ==
    /\ epc[h] = "start"
    /\ \E readOK \in BOOLEAN :
          IF readOK
          THEN /\ orig' = [orig EXCEPT ![h] = file]
               /\ epc' = [epc EXCEPT ![h] = "read"]
               /\ UNCHANGED applyErr
          ELSE /\ applyErr' = [applyErr EXCEPT ![h] = ErrReadFile]
               /\ epc' = [epc EXCEPT ![h] = "done"]
               /\ UNCHANGED orig
    /\ UNCHANGED <<file, edits>>
    /\ UNCHANGED nonEditVars

\* The rest of applyEditsToFile for request h: the edits are applied to the
\* lines it read and os.WriteFile replaces the file.
WriteFile(h) ==
    /\ epc[h] = "read"
    /\ \E writeOK \in BOOLEAN :
          LET r == applyEditsToFile(orig[h], edits[h], writeOK)
          IN  /\ file' = IF r.err = OK THEN r.content ELSE file
              /\ applyErr' = [applyErr EXCEPT ![h] = r.err]
    /\ epc' = [epc EXCEPT ![h] = "done"]
    /\ UNCHANGED <<orig, edits>>
    /\ UNCHANGED nonEditVars

RaceInit ==
    /\ NewClient
    /\ ToolIdle
    /\ DecodeIdle
    /\ LockIdle
    /\ LaterIdle
    /\ file \in Contents
    /\ orig = [h \in {0} \cup Requests |-> file]
    /\ edits \in [Requests -> RequestBatches]
    /\ applyErr = [h \in Requests |-> OK]
    /\ epc = [h \in Requests |-> "start"]

RaceNext ==
    \/ \E h \in Requests : ReadFile(h)
    \/ \E h \in Requests : WriteFile(h)

RaceSpec == RaceInit /\ [][RaceNext]_vars

\* The file after request h ran alone on content c with the read and write
\* outcomes it had.
RanAlone(c, h) ==
    IF applyErr[h] = ErrReadFile THEN c
    ELSE LET r == applyEditsToFile(c, edits[h], applyErr[h] # ErrWriteFile)
         IN  IF r.err = OK THEN r.content ELSE c
\* The files the two applications leave when one runs after the other.
OneAfterTheOther ==
    {RanAlone(RanAlone(orig[0], 1), 2), RanAlone(RanAlone(orig[0], 2), 1)}

\* C38: two requests that apply edits to the same file concurrently do not
\* lose an update: when both have finished, the file holds what running the
\* two applications one after the other, in one of the two orders, produces.
C38_NoLostUpdate ==
    (\A h \in Requests : epc[h] = "done") => file \in OneAfterTheOther

\* ------------------------------------------------- offsets and positions
ErrOffsetRange == "offset out of range"
\* OffsetToPosition(text, offset): the newlines among the first offset bytes
\* are the line, the bytes after the last of them the character.
NewlinesBefore(text, offset) == {i \in 1..offset : text[i] = NL}
OffsetToPosition(text, offset) ==
    IF offset < 0 \/ offset > Len(text)
    THEN [err |-> ErrOffsetRange, pos |-> <<0, 0>>]
    ELSE LET nls == NewlinesBefore(text, offset)
             lastNL == IF nls = {} THEN 0
                       ELSE CHOOSE i \in nls : \A j \in nls : j <= i
         IN  [err |-> OK, pos |-> <<Cardinality(nls), offset - lastNL>>]

\* lsp.Position has int fields: the positions and offsets tried reach one
\* step outside the text on either side.
OffsetPositions == ((-1)..(MaxLine + 1)) \X ((-1)..(MaxChar + 1))
Offsets == (-1)..(MaxContentLen + 1)

\* A helper was called on text; the result of the preceding call on the same
\* text is passed on when chained.
CalledOn(text, fn, arg, out, chained, from) ==
    [fn |-> fn, text |-> text, arg |-> arg, out |-> out, chained |-> chained,
     from |-> from]

RunCalculateOffset ==
    /\ \/ /\ conv.fn = "ready"
          /\ \E p \in OffsetPositions :
                conv' = CalledOn(conv.text, "CalculateOffset", p,
                                CalculateOffset(conv.text, p[1], p[2]), FALSE, p)
       \/ /\ After("OffsetToPosition")
          /\ conv.out.err = OK
          /\ conv' = CalledOn(conv.text, "CalculateOffset", conv.out.pos,
                             CalculateOffset(conv.text, conv.out.pos[1],
                                             conv.out.pos[2]),
                             TRUE, conv.arg)
    /\ UNCHANGED <<clientVars, editVars, toolVars, decodeVars, lockVars, mgr, sess, acc>>

RunOffsetToPosition ==
    /\ \/ /\ conv.fn = "ready"
          /\ \E off \in Offsets :
                conv' = CalledOn(conv.text, "OffsetToPosition", off,
                                OffsetToPosition(conv.text, off), FALSE, off)
       \/ /\ After("CalculateOffset")
          /\ conv.out.err = OK
          /\ conv' = CalledOn(conv.text, "OffsetToPosition", conv.out.off,
                             OffsetToPosition(conv.text, conv.out.off),
                             TRUE, conv.arg)
    /\ UNCHANGED <<clientVars, editVars, toolVars, decodeVars, lockVars, mgr, sess, acc>>

OffsetInit ==
    /\ NewClient
    /\ EditIdle
    /\ ToolIdle
    /\ DecodeIdle
    /\ LockIdle
    /\ MgrIdle
    /\ SessIdle
    /\ AccIdle
    /\ \E t \in Contents :
          conv = [fn |-> "ready", chained |-> FALSE, text |-> t]

OffsetNext ==
    \/ RunCalculateOffset
    \/ RunOffsetToPosition

OffsetSpec == OffsetInit /\ [][OffsetNext]_vars

\* The position names a line of the text and a column of that line.
InText(text, p) ==
    /\ 0 <= p[1]
    /\ p[1] < Len(SplitLines(text))
    /\ 0 <= p[2]
    /\ p[2] <= Len(SplitLines(text)[p[1] + 1])
\* The position is past the last line or past the end of its line.
PastText(text, p) ==
    \/ p[1] >= Len(SplitLines(text))
    \/ 0 <= p[1] /\ p[2] > Len(SplitLines(text)[p[1] + 1])
\* CalculateOffset refused the position: an error and offset -1.
Refused(out) == out.err \notin {OK, Panic} /\ out.off = -1

\* C39: CalculateOffset and OffsetToPosition are inverse on the valid domain.
\* The position OffsetToPosition returns for an offset of the text maps back
\* to that offset; a position of the text gets an offset, a position past the
\* text is refused with an error and offset -1, and every position is either
\* refused or gets an offset that OffsetToPosition maps back to it.
C39_OffsetPositionInverse ==
    /\ (conv.fn = "CalculateOffset" /\ conv.chained)
          => conv.out = [err |-> OK, off |-> conv.from]
    /\ (conv.fn = "CalculateOffset" /\ ~conv.chained)
          => /\ InText(conv.text, conv.arg) => conv.out.err = OK
             /\ PastText(conv.text, conv.arg) => Refused(conv.out)
             /\ conv.out.err = OK \/ Refused(conv.out)
    /\ (conv.fn = "OffsetToPosition" /\ conv.chained)
          => conv.out = [err |-> OK, pos |-> conv.from]
====
